---- MODULE Spec2Model ----
(***************************************************************************)
(* Article ingestion and storage pipeline of srndv2: the redis metadata    *)
(* index (src/srnd/redis.go), the article file store, the attachment store *)
(* and the message parser (src/srnd/store.go).                             *)
(*                                                                         *)
(* The redis keyspace is the record `redis`, one field per key prefix.     *)
(* A key family is a function from the key suffix to the value stored; a   *)
(* key that does not exist is not in the function's domain (redis keeps no *)
(* empty sorted set, set or hash).  A sorted set is a function from its    *)
(* members to their scores.  Message-ids are the integers 1..MaxMsg, whose *)
(* order stands for the byte order redis uses between members of equal     *)
(* score; 0 stands for the empty string (no References header).            *)
(***************************************************************************)
EXTENDS Integers, Sequences, FiniteSets, TLC

\* ---------------------------------------------------------------- bounds
MaxMsg == 2
MaxTime == 2
MaxHash == 1
MaxTail == 1
MaxTasks == 2

MsgIds == 1..MaxMsg
Times == 1..MaxTime
Hashes == 1..MaxHash
Groups == {"ctl", "overchan.test"}
Exts == {"png"}
NoRef == 0

VARIABLES
    pool,         \* the articles in circulation: message-id -> wire form
    redis,        \* the redis keyspace behind RedisDB.client
    storeFiles,   \* store_dir: message-id -> bytes written to the article file
    attachFiles,  \* attachments_dir: the storage filenames present
    partial,      \* attachments_dir: the files not written in full yet, each
                  \* with the positions that hold their byte of the blob
    thumbFiles,   \* thumbs_dir: the storage filenames that have a thumbnail
    clock,        \* the value timeNow() returns
    task,         \* the ingestion tasks in progress: where each one stands
    banned,       \* history: the subnets BanAddr was called for, no UnbanAddr since
    last          \* the last call made and what it returned

vars == <<pool, redis, storeFiles, attachFiles, partial, thumbFiles, clock, task, banned,
          last>>

\* ------------------------------------------------------- redis primitives
Get(h, k, empty) == IF k \in DOMAIN h THEN h[k] ELSE empty

Put(h, k, v) == [x \in (DOMAIN h) \cup {k} |-> IF x = k THEN v ELSE h[x]]

Del(h, k) == [x \in (DOMAIN h) \ {k} |-> h[x]]

EmptyZ == <<>>

\* ZADD NX: add the member only if it is absent
ZAddNX(z, m, s) == IF m \in DOMAIN z THEN z ELSE Put(z, m, s)

\* ZADD XX: update the score only if the member is present
ZAddXX(z, m, s) == IF m \in DOMAIN z THEN Put(z, m, s) ELSE z

ZRem(z, m) == Del(z, m)

\* rank of a member: by score, then by member
ZRank(z, m) ==
    Cardinality({x \in DOMAIN z : z[x] < z[m] \/ (z[x] = z[m] /\ x < m)})

\* the members in rank order
ZSeq(z) ==
    [i \in 1..Cardinality(DOMAIN z) |-> CHOOSE m \in DOMAIN z : ZRank(z, m) = i - 1]

\* ZRANGE key start stop, with redis' handling of negative and outlying indexes
ZRange(z, start, stop) ==
    LET n == Cardinality(DOMAIN z)
        s0 == IF start < 0 THEN n + start ELSE start
        s == IF s0 < 0 THEN 0 ELSE s0
        e0 == IF stop < 0 THEN n + stop ELSE stop
        e == IF e0 >= n THEN n - 1 ELSE e0
    IN IF s > e \/ s >= n THEN <<>> ELSE SubSeq(ZSeq(z), s + 1, e + 1)

\* a family of sorted sets or sets: a key whose value became empty is gone
PutZ(h, k, z) == IF DOMAIN z = {} THEN Del(h, k) ELSE Put(h, k, z)

PutS(h, k, s) == IF s = {} THEN Del(h, k) ELSE Put(h, k, s)

\* HSETNX: set the field only if the hash does not have it
HSetNX(h, f, v) == IF f \in DOMAIN h THEN h ELSE Put(h, f, v)

GlobalKeys == {"GROUP_POSTTIME_WKR", "ARTICLE_WKR", "THREAD_BUMPTIME_WKR"}

EmptyDB ==
    [ARTICLE |-> <<>>, ARTICLE_POST |-> <<>>, ARTICLE_KEY |-> <<>>,
     HASH_MESSAGEID |-> <<>>, ATTACHMENT |-> <<>>,
     GROUP_POSTTIME_WKR |-> EmptyZ,
     GROUP_ARTICLE_POSTTIME_WKR |-> <<>>,
     GROUP_THREAD_POSTTIME_WKR |-> <<>>,
     GROUP_THREAD_BUMPTIME_WKR |-> <<>>,
     THREAD_POST_WKR |-> <<>>,
     ARTICLE_WKR |-> EmptyZ, THREAD_BUMPTIME_WKR |-> EmptyZ,
     HEADER_KR |-> <<>>, MESSAGEID_HEADER_KR |-> <<>>,
     ARTICLE_ATTACHMENT_KR |-> <<>>, ATTACHMENT_ARTICLE_KR |-> <<>>,
     MOD_KEY |-> <<>>, GROUP_MOD_KEY_REVERSE_KR |-> <<>>,
     IP_BAN |-> <<>>, IP_RANGE_BAN_KR |-> EmptyZ, IP_RANGE_BAN |-> <<>>]

\* one redis command applied to the keyspace
ApplyCmd(db, c) ==
    CASE c.op \in {"HMSet", "Set"} ->
            [db EXCEPT ![c.key] = Put(@, c.sub, c.value)]
      [] c.op = "ZAddNX" /\ c.key \in GlobalKeys ->
            [db EXCEPT ![c.key] = ZAddNX(@, c.member, c.score)]
      [] c.op = "ZAddXX" /\ c.key \in GlobalKeys ->
            [db EXCEPT ![c.key] = ZAddXX(@, c.member, c.score)]
      [] c.op = "ZAddNX" /\ c.key \notin GlobalKeys ->
            [db EXCEPT ![c.key] =
                PutZ(@, c.sub, ZAddNX(Get(@, c.sub, EmptyZ), c.member, c.score))]
      [] c.op = "ZAddXX" /\ c.key \notin GlobalKeys ->
            [db EXCEPT ![c.key] =
                PutZ(@, c.sub, ZAddXX(Get(@, c.sub, EmptyZ), c.member, c.score))]
      [] c.op = "SAdd" ->
            [db EXCEPT ![c.key] = Put(@, c.sub, Get(@, c.sub, {}) \cup {c.member})]
      [] c.op = "HSetNX" ->
            [db EXCEPT ![c.key] =
                Put(@, c.sub, HSetNX(Get(@, c.sub, <<>>), c.field, c.value))]

\* F applied to the value of v, v being evaluated once
Then(v, F(_)) == CHOOSE y \in {F(x) : x \in {v}} : TRUE

\* the commands of a pipeline applied in order
RECURSIVE Exec(_, _)
Exec(db, cmds) ==
    IF cmds = <<>> THEN db
    ELSE Then(ApplyCmd(db, Head(cmds)),
              LAMBDA d : Then(Tail(cmds), LAMBDA rest : Exec(d, rest)))

RECURSIVE SetToSeq(_)
SetToSeq(S) ==
    IF S = {} THEN <<>>
    ELSE LET x == CHOOSE y \in S : TRUE IN <<x>> \o SetToSeq(S \ {x})

\* -------------------------------------------------------------- messages
\* the hash of a message-id: injective, and no message-id itself
HashMessageID(msgid) == <<"sha1", msgid>>

\* the storage filename of an attachment: <sha512>.<extension>
Filepath(att) == <<att.hash, att.ext>>

\* the header index names of a message: "Name::" + k + "::Value::" + v
HeaderNames(message) ==
    {"Name::Message-ID::Value::" \o ToString(message.msgid),
     "Name::Newsgroups::Value::" \o message.group}
    \cup (IF message.ref = NoRef THEN {}
          ELSE {"Name::References::Value::" \o ToString(message.ref)})

OP(message) == message.ref = NoRef

\* ------------------------------------------------------ RedisDB queries
HasNewsgroup(db, group) == group \in DOMAIN db.GROUP_POSTTIME_WKR

HasArticle(db, msgid) == msgid \in DOMAIN db.ARTICLE

HasArticleLocal(db, msgid) == msgid \in DOMAIN db.ARTICLE_POST

RegisterNewsgroup(db, group, now) ==
    [db EXCEPT !.GROUP_POSTTIME_WKR = ZAddNX(@, group, now)]

\* ------------------------------------------------ RedisDB.RegisterArticle
ArticleCmds(message, now) ==
    LET msgid == message.msgid
        group == message.group
    IN << [op |-> "HMSet", key |-> "ARTICLE", sub |-> msgid,
           value |-> [msgid |-> msgid, message_id_hash |-> HashMessageID(msgid),
                      message_newsgroup |-> group, time_obtained |-> now,
                      message_ref_id |-> message.ref]],
          [op |-> "Set", key |-> "HASH_MESSAGEID", sub |-> HashMessageID(msgid),
           value |-> msgid],
          [op |-> "ZAddXX", key |-> "GROUP_POSTTIME_WKR", member |-> group,
           score |-> now],
          [op |-> "ZAddNX", key |-> "GROUP_ARTICLE_POSTTIME_WKR", sub |-> group,
           member |-> msgid, score |-> now],
          [op |-> "HMSet", key |-> "ARTICLE_POST", sub |-> msgid,
           value |-> [newsgroup |-> group, message_id |-> msgid,
                      ref_id |-> message.ref,
                      subject |-> IF message.sage THEN "sage" ELSE "hello",
                      time_posted |-> message.posted]] >>
       \o (IF group # "ctl"
           THEN << [op |-> "ZAddNX", key |-> "ARTICLE_WKR", member |-> msgid,
                    score |-> now] >>
           ELSE <<>>)

\* ThreadCmds with the sage test of the reply branch left out
ThreadCmdsNoSage(message) ==
    LET msgid == message.msgid
        group == message.group
        ref == message.ref
        posted == message.posted
    IN IF OP(message)
       THEN << [op |-> "ZAddNX", key |-> "GROUP_THREAD_POSTTIME_WKR", sub |-> group,
                member |-> msgid, score |-> posted],
               [op |-> "ZAddNX", key |-> "GROUP_THREAD_BUMPTIME_WKR", sub |-> group,
                member |-> msgid, score |-> posted] >>
            \o (IF group # "ctl"
                THEN << [op |-> "ZAddNX", key |-> "THREAD_BUMPTIME_WKR",
                         member |-> msgid, score |-> posted] >>
                ELSE <<>>)
       ELSE << [op |-> "ZAddXX", key |-> "GROUP_THREAD_BUMPTIME_WKR",
                sub |-> group, member |-> ref, score |-> posted],
               [op |-> "ZAddXX", key |-> "THREAD_BUMPTIME_WKR",
                member |-> ref, score |-> posted],
               [op |-> "ZAddXX", key |-> "GROUP_THREAD_POSTTIME_WKR", sub |-> group,
                member |-> ref, score |-> posted],
               [op |-> "ZAddNX", key |-> "THREAD_POST_WKR", sub |-> ref,
                member |-> msgid, score |-> posted] >>

ThreadCmds(message) ==
    LET msgid == message.msgid
        group == message.group
        ref == message.ref
        posted == message.posted
    IN IF OP(message)
       THEN << [op |-> "ZAddNX", key |-> "GROUP_THREAD_POSTTIME_WKR", sub |-> group,
                member |-> msgid, score |-> posted],
               [op |-> "ZAddNX", key |-> "GROUP_THREAD_BUMPTIME_WKR", sub |-> group,
                member |-> msgid, score |-> posted] >>
            \o (IF group # "ctl"
                THEN << [op |-> "ZAddNX", key |-> "THREAD_BUMPTIME_WKR",
                         member |-> msgid, score |-> posted] >>
                ELSE <<>>)
       ELSE (IF ~message.sage
             THEN << [op |-> "ZAddXX", key |-> "GROUP_THREAD_BUMPTIME_WKR",
                      sub |-> group, member |-> ref, score |-> posted],
                     [op |-> "ZAddXX", key |-> "THREAD_BUMPTIME_WKR",
                      member |-> ref, score |-> posted] >>
             ELSE <<>>)
            \o << [op |-> "ZAddXX", key |-> "GROUP_THREAD_POSTTIME_WKR", sub |-> group,
                   member |-> ref, score |-> posted],
                  [op |-> "ZAddNX", key |-> "THREAD_POST_WKR", sub |-> ref,
                   member |-> msgid, score |-> posted] >>

RECURSIVE HeaderCmds(_, _)
HeaderCmds(msgid, headers) ==
    IF headers = <<>> THEN <<>>
    ELSE << [op |-> "SAdd", key |-> "HEADER_KR", sub |-> Head(headers),
             member |-> msgid],
            [op |-> "SAdd", key |-> "MESSAGEID_HEADER_KR", sub |-> msgid,
             member |-> Head(headers)] >>
         \o HeaderCmds(msgid, Tail(headers))

RECURSIVE AttachmentCmds(_, _)
AttachmentCmds(msgid, atts) ==
    IF atts = <<>> THEN <<>>
    ELSE LET att == Head(atts)
             hash == att.hash
         IN << [op |-> "SAdd", key |-> "ATTACHMENT_ARTICLE_KR", sub |-> hash,
                member |-> msgid],
               [op |-> "SAdd", key |-> "ARTICLE_ATTACHMENT_KR", sub |-> msgid,
                member |-> hash],
               [op |-> "HSetNX", key |-> "ATTACHMENT", sub |-> hash,
                field |-> "message_id", value |-> msgid],
               [op |-> "HSetNX", key |-> "ATTACHMENT", sub |-> hash,
                field |-> "sha_hash", value |-> hash],
               [op |-> "HSetNX", key |-> "ATTACHMENT", sub |-> hash,
                field |-> "filename", value |-> att.name],
               [op |-> "HSetNX", key |-> "ATTACHMENT", sub |-> hash,
                field |-> "filepath", value |-> Filepath(att)] >>
            \o AttachmentCmds(msgid, Tail(atts))

\* the commands RegisterArticle queues on its pipeline, in order
PipeCmds(message, now) ==
    ArticleCmds(message, now) \o ThreadCmds(message)
    \o HeaderCmds(message.msgid, SetToSeq(HeaderNames(message)))
    \o AttachmentCmds(message.msgid, message.atts)

\* the whole call, run with no other client in between
RegisterArticle(db, message, now) ==
    LET db1 == IF ~HasNewsgroup(db, message.group)
               THEN RegisterNewsgroup(db, message.group, now)
               ELSE db
    IN IF HasArticle(db1, message.msgid) THEN db1
       ELSE Then(PipeCmds(message, now), LAMBDA cmds : Exec(db1, cmds))

\* ------------------------------------------------------------ wire form
(***************************************************************************)
(* An article on the wire is a header block and a body.  The body is a     *)
(* sequence of tokens [t, v]: a "byte" of text, a MIME "part" (v: its      *)
(* Content-Type, and the hash, extension and filename of its content), a   *)
(* "broken" place where the multipart reader fails, or the "hdr" block of  *)
(* the message a signed envelope carries.                                  *)
(***************************************************************************)
Byte(n) == [t |-> "byte", v |-> n]

Part(ptype, hash, ext) ==
    [t |-> "part", v |-> [ptype |-> ptype, hash |-> hash, ext |-> ext, name |-> "pic"]]

Broken == [t |-> "broken", v |-> 0]

\* the place where the body reader fails with an error other than io.EOF
IOErr == [t |-> "ioerr", v |-> 0]

HdrBlock(hdr) == [t |-> "hdr", v |-> hdr]

NoSig == <<>>

SHA512(bytes) == <<"sha512", bytes>>

\* the Ed25519 signature key pk makes of a hash
Sign(pk, hash) == <<"ed25519", pk, hash>>

\* mime.ParseMediaType of the Content-Type values in circulation
ParseMediaType(content_type) ==
    CASE content_type = "text/plain" ->
            [err |-> FALSE, media_type |-> "text/plain", boundary |-> FALSE]
      [] content_type = "multipart/mixed; boundary=b" ->
            [err |-> FALSE, media_type |-> "multipart/mixed", boundary |-> TRUE]
      [] content_type = "image/png" ->
            [err |-> FALSE, media_type |-> "image/png", boundary |-> FALSE]
      [] content_type = "message/rfc822" ->
            [err |-> FALSE, media_type |-> "message/rfc822", boundary |-> FALSE]
      [] OTHER ->
            [err |-> TRUE, media_type |-> "", boundary |-> FALSE]

\* nacl.CryptoVerifyFucky: the detached signature check over a hash
CryptoVerifyFucky(hash, sig_bytes, pk_bytes) == sig_bytes = Sign(pk_bytes, hash)

\* the bytes a read loop keeps when the reader hands the last k bytes over
\* together with io.EOF: it appends only what came with a nil error
ReadLoop(body, k) == SubSeq(body, 1, Len(body) - k)

\* the number of tokens a read loop gets before the body reader fails
\* (the whole body if it does not)
ReadUpTo(body) ==
    LET failing == {i \in DOMAIN body : body[i].t = "ioerr"}
    IN IF failing = {} THEN Len(body)
       ELSE (CHOOSE i \in failing : \A j \in failing : i <= j) - 1

ReadFails(body) == ReadUpTo(body) < Len(body)

\* the header block read and left in the reader
ReadMIMEHeaderKept(bytes) ==
    IF bytes # <<>> /\ Head(bytes).t = "hdr"
    THEN [err |-> "", hdr |-> Head(bytes).v, rest |-> bytes]
    ELSE [err |-> "malformed MIME header", hdr |-> <<>>, rest |-> <<>>]

\* bufio over the buffered inner body: the header block, then the rest
ReadMIMEHeader(bytes) ==
    IF bytes # <<>> /\ Head(bytes).t = "hdr"
    THEN [err |-> "", hdr |-> Head(bytes).v, rest |-> Tail(bytes)]
    ELSE [err |-> "malformed MIME header", hdr |-> <<>>, rest |-> <<>>]

\* the nntpArticle of a header block, its attachments added
Article(hdr, atts) ==
    [msgid |-> hdr.msgid, group |-> hdr.group, ref |-> hdr.ref, sage |-> hdr.sage,
     posted |-> hdr.posted, atts |-> atts]

NoArticle == [msgid |-> 0, group |-> "", ref |-> NoRef, sage |-> FALSE,
              posted |-> 0, atts |-> <<>>]

\* the store handed on with every part, the text/plain part too
PartStoreAlways(media_type, store) == store

\* the store readAttachmentFromMimePartAndStore is given for a part: nil
\* for the text/plain part
PartStore(media_type, store) == IF media_type = "text/plain" THEN FALSE ELSE store

\* the multipart loop of read_message_body over the parts left; message is
\* nntp.message, the text body, a part read being the token of the part
RECURSIVE ReadParts(_, _, _, _, _, _)
ReadParts(parts, hdr, store, atts, saved, message) ==
    IF parts = <<>>
    THEN [err |-> "", nntp |-> Article(hdr, atts), saved |-> saved, message |-> message]
    ELSE LET p == Head(parts)
             att == [hash |-> p.v.hash, ext |-> p.v.ext, name |-> p.v.name]
         IN CASE p.t = "broken" ->
                    [err |-> "multipart: NextPart", nntp |-> NoArticle, saved |-> saved,
                     message |-> <<>>]
              [] p.t = "part" /\ ParseMediaType(p.v.ptype).err ->
                    ReadParts(Tail(parts), hdr, store, atts, saved, message)
              [] p.t = "part" /\ ParseMediaType(p.v.ptype).media_type = "text/plain" ->
                    ReadParts(Tail(parts), hdr, store, atts,
                              IF PartStore("text/plain", store) THEN Append(saved, att)
                              ELSE saved,
                              <<p>>)
              [] p.t = "part" ->
                    ReadParts(Tail(parts), hdr, store, Append(atts, att),
                              IF PartStore(ParseMediaType(p.v.ptype).media_type, store)
                              THEN Append(saved, att) ELSE saved,
                              message)
              [] OTHER ->
                    ReadParts(Tail(parts), hdr, store, atts, saved, message)

\* InvalidHeaders with the test of the signature header left out
InvalidHeadersPkOnly(hdr) == hdr.pk = ""

\* a signed envelope needs both a public key and a signature header
InvalidHeaders(hdr) == hdr.pk = "" \/ hdr.sig = NoSig

(***************************************************************************)
(* read_message_body(body, hdr, store, wr, false).  k is the number of     *)
(* final bytes the body reader returns together with io.EOF (0: it returns *)
(* them before).  The result: the error, the article, the attachments      *)
(* handed to saveAttachment in order, the number of body bytes read and    *)
(* hashed, the public key that verified the outermost envelope, the bytes  *)
(* the tee reader wrote to wr, and the length of the body of this call and *)
(* of each call made for an inner message.                                 *)
(***************************************************************************)
\* the inner call of an envelope with wr passed on to it
InnerTeeToSink(bytes) == bytes

\* what the inner call of an envelope writes to wr: its writer is Discard
InnerTee(bytes) == <<>>

RECURSIVE read_message_body(_, _, _, _)
read_message_body(body, hdr, store, k) ==
    LET mt == ParseMediaType(hdr.ctype)
        none == [err |-> "", nntp |-> NoArticle, saved |-> <<>>, nread |-> 0,
                 hashed |-> 0, pk |-> "", tee |-> <<>>, message |-> <<>>,
                 calls |-> <<Len(body)>>]
    IN CASE mt.err ->
                [none EXCEPT !.err = "mime: bad media type"]
         [] ~mt.err /\ mt.boundary ->
                LET r == ReadParts(body, hdr, store, <<>>, <<>>, <<>>)
                IN [none EXCEPT !.err = r.err, !.nntp = r.nntp, !.saved = r.saved,
                                !.message = r.message,
                                !.nread = Len(body), !.tee = body]
         [] ~mt.err /\ ~mt.boundary /\ mt.media_type = "message/rfc822" ->
                IF InvalidHeaders(hdr)
                THEN [none EXCEPT !.err = "invalid headers"]
                ELSE IF ReadFails(body)
                THEN [none EXCEPT !.err = "read error", !.nread = ReadUpTo(body),
                                  !.hashed = ReadUpTo(body),
                                  !.tee = SubSeq(body, 1, ReadUpTo(body))]
                ELSE LET buff == ReadLoop(body, k)
                         hash == SHA512(buff)
                         in == ReadMIMEHeader(buff)
                     IN IF ~CryptoVerifyFucky(hash, hdr.sig, hdr.pk)
                        THEN [none EXCEPT !.err = "invalid signature", !.tee = body,
                                          !.nread = Len(body), !.hashed = Len(buff)]
                        ELSE IF in.err # ""
                        THEN [none EXCEPT !.err = in.err, !.tee = body,
                                          !.nread = Len(body), !.hashed = Len(buff)]
                        ELSE LET r == read_message_body(in.rest, in.hdr, store, 0)
                             IN [r EXCEPT !.nread = Len(body), !.hashed = Len(buff),
                                          !.pk = hdr.pk, !.tee = body \o InnerTee(@),
                                          !.calls = <<Len(body)>> \o @]
         [] OTHER ->
                [none EXCEPT !.err = IF ReadFails(body) THEN "read error" ELSE "",
                             !.nntp = Article(hdr, <<>>), !.nread = ReadUpTo(body),
                             !.message = IF ReadFails(body)
                                         THEN SubSeq(body, 1, ReadUpTo(body))
                                         ELSE ReadLoop(body, k),
                             !.tee = SubSeq(body, 1, ReadUpTo(body))]

\* ---------------------------------------------------- RedisDB deletions
\* the fields of the post model DeleteArticle reads; HGetAll of a missing
\* key is an empty hash and no error
GetPostModel(db, messageID) ==
    IF messageID \in DOMAIN db.ARTICLE_POST
    THEN LET h == db.ARTICLE_POST[messageID]
         IN [board |-> h.newsgroup, parent |-> h.ref_id, op |-> h.ref_id = NoRef]
    ELSE [board |-> "", parent |-> NoRef, op |-> TRUE]

SRem(h, k, m) == PutS(h, k, Get(h, k, {}) \ {m})

RECURSIVE RemHeaders(_, _, _)
RemHeaders(kr, headers, msgid) ==
    IF headers = <<>> THEN kr
    ELSE RemHeaders(SRem(kr, Head(headers), msgid), Tail(headers), msgid)

\* the loop of DeleteArticle over the attachments of the article: the
\* attachment record goes with its last article
RECURSIVE RemAttachments(_, _, _)
RemAttachments(db, atts, msgid) ==
    IF atts = <<>> THEN db
    ELSE LET a == Head(atts)
             left == Get(db.ATTACHMENT_ARTICLE_KR, a, {}) \ {msgid}
         IN Then([db EXCEPT
                    !.ATTACHMENT_ARTICLE_KR = PutS(@, a, left),
                    !.ATTACHMENT = IF left = {} THEN Del(@, a) ELSE @],
                 LAMBDA d : RemAttachments(d, Tail(atts), msgid))

\* DeleteArticle, first part: the thread membership, the records, the
\* per-group and the global article ordering
DeleteArticleRecords(db, msgid) ==
    LET p == GetPostModel(db, msgid)
    IN [db EXCEPT
          !.THREAD_POST_WKR =
              IF ~p.op THEN PutZ(@, p.parent, ZRem(Get(@, p.parent, EmptyZ), msgid))
              ELSE @,
          !.HASH_MESSAGEID =
              IF msgid \in DOMAIN db.ARTICLE
              THEN Del(@, db.ARTICLE[msgid].message_id_hash) ELSE @,
          !.ARTICLE = Del(@, msgid),
          !.ARTICLE_POST = Del(@, msgid),
          !.ARTICLE_KEY = Del(@, msgid),
          !.GROUP_ARTICLE_POSTTIME_WKR =
              PutZ(@, p.board, ZRem(Get(@, p.board, EmptyZ), msgid)),
          !.ARTICLE_WKR = ZRem(@, msgid)]

\* DeleteArticle, second part: the header index
DeleteArticleHeaders(db, msgid) ==
    [db EXCEPT
       !.HEADER_KR =
           RemHeaders(@, SetToSeq(Get(db.MESSAGEID_HEADER_KR, msgid, {})), msgid),
       !.MESSAGEID_HEADER_KR = Del(@, msgid)]

\* DeleteArticle, third part: the attachment mappings
DeleteArticleAttachments(db, msgid) ==
    Then(RemAttachments(db, SetToSeq(Get(db.ARTICLE_ATTACHMENT_KR, msgid, {})), msgid),
         LAMBDA d : [d EXCEPT !.ARTICLE_ATTACHMENT_KR = Del(@, msgid)])

DeleteArticle(db, msgid) ==
    Then(db, LAMBDA d0 :
    Then(DeleteArticleRecords(d0, msgid), LAMBDA d1 :
    Then(DeleteArticleHeaders(d1, msgid), LAMBDA d2 :
         DeleteArticleAttachments(d2, msgid))))

GetThreadReplies(db, rootpost, limit) ==
    LET lim == IF limit < 1 THEN 1 ELSE limit
    IN ZRange(Get(db.THREAD_POST_WKR, rootpost, EmptyZ), 1 - lim, -1)

RECURSIVE DeleteArticles(_, _)
DeleteArticles(db, msgids) ==
    IF msgids = <<>> THEN db
    ELSE Then(DeleteArticle(db, Head(msgids)),
              LAMBDA d : DeleteArticles(d, Tail(msgids)))

\* DeleteThread once the replies are gone: the thread orderings, then the root
DeleteThreadRoot(db, msgid) ==
    LET group == IF msgid \in DOMAIN db.ARTICLE
                 THEN db.ARTICLE[msgid].message_newsgroup ELSE ""
    IN DeleteArticle(
         [db EXCEPT
            !.GROUP_THREAD_POSTTIME_WKR =
                IF group # "" THEN PutZ(@, group, ZRem(Get(@, group, EmptyZ), msgid))
                ELSE @,
            !.GROUP_THREAD_BUMPTIME_WKR =
                IF group # "" THEN PutZ(@, group, ZRem(Get(@, group, EmptyZ), msgid))
                ELSE @,
            !.THREAD_BUMPTIME_WKR = ZRem(@, msgid),
            !.THREAD_POST_WKR = Del(@, msgid)],
         msgid)

DeleteThread(db, msgid) ==
    Then(db, LAMBDA d0 :
    Then(DeleteArticles(d0, GetThreadReplies(d0, msgid, 0)), LAMBDA d1 :
         DeleteThreadRoot(d1, msgid)))

RECURSIVE DeleteThreads(_, _)
DeleteThreads(db, roots) ==
    IF roots = <<>> THEN db
    ELSE Then(DeleteThread(db, Head(roots)),
              LAMBDA d : DeleteThreads(d, Tail(roots)))

\* the storage filenames GetPostAttachments returns: the "filepath" field of
\* each attachment record of the article
GetPostAttachments(db, messageID) ==
    {db.ATTACHMENT[hash].filepath :
        hash \in {h \in Get(db.ARTICLE_ATTACHMENT_KR, messageID, {}) :
                    h \in DOMAIN db.ATTACHMENT /\ "filepath" \in DOMAIN db.ATTACHMENT[h]}}

\* the message-id of a lookup that found nothing: the empty string
NoMsgid == 0

GetLastAndFirstForGroup(db, group) ==
    LET card == Cardinality(DOMAIN Get(db.GROUP_ARTICLE_POSTTIME_WKR, group, EmptyZ))
    IN IF card = 0
       THEN [last |-> 0, first |-> 1]
       ELSE [last |-> card + 1, first |-> 1]

GetMessageIDForNNTPID(db, group, id) ==
    LET n == IF id = 0 THEN 1 ELSE id
        posts == ZRange(Get(db.GROUP_ARTICLE_POSTTIME_WKR, group, EmptyZ), n - 1, n - 1)
    IN IF Len(posts) > 0 THEN posts[1] ELSE NoMsgid

GetAllArticlesInGroup(db, group) ==
    ZRange(Get(db.GROUP_ARTICLE_POSTTIME_WKR, group, EmptyZ), 0, -1)

Range(s) == {s[i] : i \in DOMAIN s}

\* the storage filenames NukeNewsgroup removes from disk
NukedAttachments(db, group) ==
    UNION {GetPostAttachments(db, m) : m \in Range(GetAllArticlesInGroup(db, group))}

\* MOD_KEY_PREFIX + pubkey + "::Group::" + group + "::Permissions"
ModKey(pubkey, group) == <<pubkey, group>>

MarkModPubkeyCanModGroup(db, pubkey, group) ==
    [db EXCEPT
       !.MOD_KEY = Put(@, ModKey(pubkey, group),
                       Get(@, ModKey(pubkey, group), {}) \cup {"default"}),
       !.GROUP_MOD_KEY_REVERSE_KR = Put(@, group, Get(@, group, {}) \cup {pubkey})]

\* NukeNewsgroup once the threads are gone: the moderators of the group, the
\* per-group orderings, the group itself
NukeNewsgroupKeys(db, group) ==
    LET mods == Get(db.GROUP_MOD_KEY_REVERSE_KR, group, {})
    IN [db EXCEPT
          !.MOD_KEY = [x \in (DOMAIN @) \ {ModKey(m, group) : m \in mods} |-> @[x]],
          !.GROUP_MOD_KEY_REVERSE_KR = Del(@, group),
          !.GROUP_ARTICLE_POSTTIME_WKR = Del(@, group),
          !.GROUP_THREAD_POSTTIME_WKR = Del(@, group),
          !.GROUP_THREAD_BUMPTIME_WKR = Del(@, group),
          !.GROUP_POSTTIME_WKR = ZRem(@, group)]

\* the index after NukeNewsgroup
NukeNewsgroup(db, group) ==
    Then(db, LAMBDA d0 :
    Then(DeleteThreads(d0, ZRange(Get(d0.GROUP_THREAD_BUMPTIME_WKR, group, EmptyZ), 0, -1)),
         LAMBDA d1 : NukeNewsgroupKeys(d1, group)))

RegisterSigned(db, message_id, pubkey) ==
    [db EXCEPT !.ARTICLE_KEY = Put(@, message_id, pubkey)]

\* --------------------------------------------------------------- ip bans
\* the width of an address in bits
IPBits == 2

IPs == 0..(2^IPBits - 1)

\* the strings handed to the ban calls: an address, or a subnet in CIDR
\* notation, address/ones
Addr(ip) == [cidr |-> FALSE, ip |-> ip, ones |-> IPBits]

Subnet(ip, ones) == [cidr |-> TRUE, ip |-> ip, ones |-> ones]

Addrs == {Addr(ip) : ip \in IPs} \cup {Subnet(ip, ones) : ip \in IPs, ones \in 0..IPBits}

\* the strings the ban calls are exercised with: every subnet, and the first
\* and the last address
CallAddrs == {a \in Addrs : a.cidr \/ a.ip \in {0, 2^IPBits - 1}}

\* IsSubnet: whether the string parses as CIDR, and the network it names, the
\* address masked to the prefix
IsSubnet(addr) ==
    LET size == 2^(IPBits - addr.ones)
    IN [isnet |-> addr.cidr, ip |-> (addr.ip \div size) * size, ones |-> addr.ones]

\* the first and the last address of a network
IPNet2MinMax(ipnet) ==
    [min |-> ipnet.ip, max |-> ipnet.ip + 2^(IPBits - ipnet.ones) - 1]

\* the zero-padded string of an address, here its binary digits
ZeroIPString(ip) == [i \in 1..IPBits |-> (ip \div 2^(IPBits - i)) % 2]

\* strings.Compare, and the byte order of redis, on strings of one length
Compare(a, b) ==
    IF a = b THEN 0
    ELSE LET i == CHOOSE k \in 1..Len(a) : a[k] # b[k] /\ \A j \in 1..(k - 1) : a[j] = b[j]
         IN IF a[i] < b[i] THEN -1 ELSE 1

\* the bounds of ZRANGEBYLEX: "[" + v, "(" + v and "+"
Incl(v) == [t |-> "[", v |-> v]

Excl(v) == [t |-> "(", v |-> v]

Plus == [t |-> "+", v |-> <<>>]

RECURSIVE LexSeq(_)
LexSeq(S) ==
    IF S = {} THEN <<>>
    ELSE LET m == CHOOSE x \in S : \A y \in S : Compare(x, y) <= 0
         IN <<m>> \o LexSeq(S \ {m})

\* ZRANGEBYLEX key min max LIMIT 0 count; a count of 0 is no limit
ZRangeByLex(z, min, max, count) ==
    LET above(m) == IF min.t = "[" THEN Compare(m, min.v) >= 0 ELSE Compare(m, min.v) > 0
        below(m) == CASE max.t = "+" -> TRUE
                      [] max.t = "[" -> Compare(m, max.v) <= 0
                      [] OTHER -> Compare(m, max.v) < 0
        all == LexSeq({m \in DOMAIN z : above(m) /\ below(m)})
    IN IF count > 0 /\ Len(all) > count THEN SubSeq(all, 1, count) ELSE all

\* the lookup CheckIPBanned and UnbanAddr share: the stored range of the
\* smallest endpoint from start on, if that range begins at or before
\* range_start; <<>> otherwise
RangeOver(db, range_start, start) ==
    LET res == ZRangeByLex(db.IP_RANGE_BAN_KR, Incl(start), Plus, 1)
    IN IF Len(res) > 0 /\ res[1] \in DOMAIN db.IP_RANGE_BAN
          /\ Compare(range_start, db.IP_RANGE_BAN[res[1]].start) >= 0
       THEN res
       ELSE <<>>

CheckIPBanned(db, addr) ==
    IF addr \in DOMAIN db.IP_BAN THEN TRUE
    ELSE LET ipnet == IsSubnet(addr)
             mm == IPNet2MinMax(ipnet)
             range_start == IF ipnet.isnet THEN ZeroIPString(mm.min)
                            ELSE ZeroIPString(addr.ip)
             start == IF ipnet.isnet THEN ZeroIPString(mm.max) ELSE ZeroIPString(addr.ip)
         IN RangeOver(db, range_start, start) # <<>>

RECURSIVE DelRanges(_, _)
DelRanges(db, ranges) ==
    IF ranges = <<>> THEN db
    ELSE DelRanges([db EXCEPT !.IP_RANGE_BAN_KR = ZRem(@, Head(ranges)),
                              !.IP_RANGE_BAN = Del(@, Head(ranges))],
                   Tail(ranges))

\* the banned ranges whose endpoint lies after start and up to end are dropped
clearIPRange(db, start, end) ==
    DelRanges(db, ZRangeByLex(db.IP_RANGE_BAN_KR, Excl(start), Incl(end), 0))

BanAddr(db, addr, now) ==
    LET ipnet == IsSubnet(addr)
        mm == IPNet2MinMax(ipnet)
        start == ZeroIPString(mm.min)
        end == ZeroIPString(mm.max)
    IN IF ~ipnet.isnet
       THEN [db EXCEPT !.IP_BAN = Put(@, addr, [addr |-> addr, made |-> now])]
       ELSE IF ~CheckIPBanned(db, addr)
       THEN [clearIPRange(db, start, end) EXCEPT
                !.IP_RANGE_BAN_KR = Put(@, end, 0),
                !.IP_RANGE_BAN = Put(@, end, [start |-> start, end |-> end, made |-> now])]
       ELSE db

UnbanAddr(db, addr) ==
    LET ipnet == IsSubnet(addr)
        mm == IPNet2MinMax(ipnet)
        d0 == [db EXCEPT !.IP_BAN = Del(@, addr)]
    IN IF ~ipnet.isnet THEN d0
       ELSE DelRanges(d0, RangeOver(d0, ZeroIPString(mm.min), ZeroIPString(mm.max)))

\* ------------------------------------------------------ the file stores
\* CreateFile with the CheckFile test left out
CreateFileUnchecked(files, messageID) == TRUE

\* the strings that are no message-id: the empty one and one that fails the
\* syntax, such as "../x"
BadIds == {0, -1}

\* the message-id syntax: the integers from 1 on stand for the strings of it
ValidMessageID(id) == id >= 1

\* a path: the directory and the name in it; the empty path has neither
StoreDir == "store_dir"

NoPath == [dir |-> "", name |-> 0]

\* GetFilename with the ValidMessageID test left out
GetFilenameUnchecked(messageID) == [dir |-> StoreDir, name |-> messageID]

\* articleStore.GetFilename: filepath.Join(directory, messageID), or ""
GetFilename(messageID) ==
    IF ~ValidMessageID(messageID) THEN NoPath
    ELSE [dir |-> StoreDir, name |-> messageID]

\* CheckFile(fname): the file exists; the empty path names no file
CheckFile(files, fname) == fname.dir = StoreDir /\ fname.name \in DOMAIN files

\* articleStore.CreateFile: a sink unless CheckFile finds the article file
\* or os.Create fails, as it does on the empty path
CreateFile(files, messageID) ==
    LET fname == GetFilename(messageID)
    IN ~CheckFile(files, fname) /\ fname # NoPath

\* the storage filenames of the attachments handed to saveAttachment
Filepaths(saved) == {Filepath(saved[i]) : i \in DOMAIN saved}

\* articleStore.saveAttachment: the file is created where CheckFile finds none
saveAttachment(files, saved) == files \cup Filepaths(saved)

\* thumbnailAttachment: a thumbnail is made where there is none, if the tool succeeds
thumbnailAttachment(thumbs, saved, toolOk) ==
    IF toolOk THEN thumbs \cup Filepaths(saved) ELSE thumbs

\* ProcessMessageBody with the test of the parse error left out
ProcessMessageBodyUnchecked(db, r, now) == RegisterArticle(db, r.nntp, now)

\* articleStore.ProcessMessageBody: the article is registered iff the parse
\* returned no error
ProcessMessageBody(db, r, now) ==
    IF r.err = "" THEN RegisterArticle(db, r.nntp, now) ELSE db

\* what the sink holds once the parse is over: the headers, then the tee
SinkBytes(w, r) == <<HdrBlock(w.hdr)>> \o r.tee

\* the ingestion controller's last step: the file is kept iff there was no error
CloseSink(files, msgid, w, r) ==
    IF r.err = "" THEN Put(files, msgid, SinkBytes(w, r)) ELSE Del(files, msgid)

\* ------------------------------------------------------------ the inputs
Hdr(msgid, group, ref, sage, posted, ctype, pk, sig) ==
    [msgid |-> msgid, group |-> group, ref |-> ref, sage |-> sage, posted |-> posted,
     ctype |-> ctype, pk |-> pk, sig |-> sig]

Wire(hdr, body) == [hdr |-> hdr, body |-> body]

PlainWire(msgid, group, ref, sage, posted) ==
    Wire(Hdr(msgid, group, ref, sage, posted, "text/plain", "", NoSig), <<Byte(1)>>)

MultipartWire(msgid, group, ref, sage, posted, parts) ==
    Wire(Hdr(msgid, group, ref, sage, posted, "multipart/mixed; boundary=b", "", NoSig),
         parts)

InnerBytes(inner) == <<HdrBlock(inner.hdr)>> \o inner.body

\* a signed envelope around the inner message, carrying public key pk and the
\* signature signer makes of the hash of the bytes signed ("": no signature)
Envelope(msgid, inner, pk, signer, signedBytes) ==
    Wire(Hdr(msgid, inner.hdr.group, inner.hdr.ref, inner.hdr.sage, inner.hdr.posted,
             "message/rfc822", pk,
             IF signer = "" THEN NoSig ELSE Sign(signer, SHA512(signedBytes))),
         InnerBytes(inner))

TextPart == Part("text/plain", 0, "")

Picture(h, e) == <<TextPart, Part("image/png", h, e)>>

\* two pictures, the text between them, and a part of a malformed Content-Type
Mixed ==
    <<Part("image/png", 2, "png"), TextPart, Part("garbage", 3, "png"),
      Part("image/png", 1, "png")>>

\* the references a message may carry: none, or an earlier message-id
Refs(m) == {NoRef} \cup {r \in MsgIds : r < m}

\* the articles the index is exercised with: plain ones and ones with a picture
IndexWires(m) ==
    {w \in {PlainWire(m, g, r, s, t) :
                g \in Groups, r \in Refs(m), s \in BOOLEAN, t \in Times}
           \cup
           {MultipartWire(m, g, r, s, t, Picture(h, e)) :
                g \in Groups, r \in Refs(m), s \in BOOLEAN, t \in Times,
                h \in Hashes, e \in Exts} :
        w.hdr.ref = NoRef => ~w.hdr.sage}

Pools(wires(_)) ==
    {p \in [MsgIds -> UNION {wires(m) : m \in MsgIds}] : \A m \in MsgIds : p[m] \in wires(m)}

\* the articles ingestion is exercised with: plain, with a picture, cut short
\* after the picture, with a malformed part, of a malformed Content-Type, of
\* a body reader that fails, and signed envelopes
IngestWires(m) ==
    UNION {
        {PlainWire(m, g, r, FALSE, 1),
         MultipartWire(m, g, r, FALSE, 1, Picture(1, "png")),
         MultipartWire(m, g, r, FALSE, 1, <<Part("image/png", 1, "png"), Broken>>),
         Wire(Hdr(m, g, r, FALSE, 1, "garbage", "", NoSig), <<Byte(1)>>),
         Wire(Hdr(m, g, r, FALSE, 1, "text/plain", "", NoSig), <<Byte(1), IOErr, Byte(2)>>),
         Wire(Hdr(m, g, r, FALSE, 1, "message/rfc822", "alice",
                  Sign("alice", SHA512(<<Byte(1)>>))),
              <<Byte(1), IOErr>>)}
        \cup
        (IF g = "overchan.test" /\ r = NoRef
         THEN {MultipartWire(m, g, r, FALSE, 1, Mixed)} ELSE {})
        \cup
        {Envelope(m, MultipartWire(i, g, r, FALSE, 1, Picture(1, "png")), pk, signer,
                  InnerBytes(MultipartWire(i, g, r, FALSE, 1, Picture(1, "png")))) :
            i \in MsgIds, pk \in {"", "alice"}, signer \in {"", "alice", "mallory"}}
        : g \in Groups, r \in Refs(m)}

\* ------------------------------------------------------------ the actions
Idle == [pc |-> "idle", msgid |-> 0, err |-> "", cmds |-> <<>>, sink |-> FALSE, off |-> 0]

Last(op, arg, res) == [op |-> op, arg |-> arg, res |-> res, nread |-> 0, hashed |-> 0]

InitWith(pools) ==
    /\ pool \in pools
    /\ redis = EmptyDB
    /\ storeFiles = <<>>
    /\ attachFiles = {}
    /\ partial = <<>>
    /\ thumbFiles = {}
    /\ clock = 1
    /\ task = [t \in 1..MaxTasks |-> Idle]
    /\ banned = {}
    /\ last = Last("none", 0, "")

Init == InitWith(Pools(IndexWires))

InitIngest == InitWith(Pools(IngestWires))

Tick ==
    /\ clock < MaxTime
    /\ clock' = clock + 1
    /\ last' = Last("Tick", 0, "")
    /\ UNCHANGED <<pool, banned, partial, redis, storeFiles, attachFiles, thumbFiles, task>>

\* the article RegisterPost hands to RegisterArticle for a message of the pool
Parsed(m) == read_message_body(pool[m].body, pool[m].hdr, FALSE, 0).nntp

DoRegisterArticle ==
    \E m \in MsgIds :
        /\ redis' = RegisterArticle(redis, Parsed(m), clock)
        /\ last' = Last("RegisterArticle", m,
                        IF HasArticle(redis, m) THEN "known" ELSE "new")
        /\ UNCHANGED <<pool, banned, partial, storeFiles, attachFiles, thumbFiles, clock, task>>

DoDeleteArticle ==
    \E m \in MsgIds :
        /\ redis' = DeleteArticle(redis, m)
        /\ last' = Last("DeleteArticle", m, "")
        /\ UNCHANGED <<pool, banned, partial, storeFiles, attachFiles, thumbFiles, clock, task>>

DoDeleteThread ==
    \E m \in MsgIds :
        /\ redis' = DeleteThread(redis, m)
        /\ last' = Last("DeleteThread", m, "")
        /\ UNCHANGED <<pool, banned, partial, storeFiles, attachFiles, thumbFiles, clock, task>>

DoNukeNewsgroup ==
    \E group \in Groups :
        LET gone == Range(GetAllArticlesInGroup(redis, group))
            atts == NukedAttachments(redis, group)
        IN /\ storeFiles' = [x \in (DOMAIN storeFiles) \ gone |-> storeFiles[x]]
           /\ attachFiles' = attachFiles \ atts
           /\ thumbFiles' = thumbFiles \ atts
           /\ redis' = NukeNewsgroup(redis, group)
           /\ last' = Last("NukeNewsgroup", group, "")
           /\ partial' = [x \in (DOMAIN partial) \ atts |-> partial[x]]
           /\ UNCHANGED <<pool, banned, clock, task>>

\* ingest(header_map, body_reader) run from start to end with no other task
\* in between: the sink, the headers, the parse, the registration or the clean-up
DoIngest ==
    \E m \in MsgIds, k \in 0..MaxTail, toolOk \in BOOLEAN :
        LET w == pool[m]
            r == read_message_body(w.body, w.hdr, TRUE, k)
        IN /\ k <= Len(w.body)
           /\ IF ~CreateFile(storeFiles, m)
              THEN /\ last' = Last("Ingest", m, "duplicate")
                   /\ UNCHANGED <<redis, storeFiles, attachFiles, thumbFiles>>
              ELSE /\ storeFiles' = CloseSink(storeFiles, m, w, r)
                   /\ attachFiles' = saveAttachment(attachFiles, r.saved)
                   /\ thumbFiles' = thumbnailAttachment(thumbFiles, r.saved, toolOk)
                   /\ redis' = ProcessMessageBody(redis, r, clock)
                   /\ last' = [Last("Ingest", m, IF r.err = "" THEN "ok" ELSE r.err)
                                 EXCEPT !.nread = r.nread, !.hashed = r.hashed]
           /\ UNCHANGED <<pool, banned, partial, clock, task>>

Next ==
    \/ Tick
    \/ DoRegisterArticle
    \/ DoDeleteArticle
    \/ DoDeleteThread
    \/ DoNukeNewsgroup

Spec == Init /\ [][Next]_vars

NextIngest ==
    \/ DoIngest
    \/ DoDeleteArticle
    \/ DoDeleteThread
    \/ DoNukeNewsgroup

SpecIngest == InitIngest /\ [][NextIngest]_vars

\* ------------------------------------------- ingestion, task by task
(***************************************************************************)
(* Several tasks ingest at once.  Each file-system call and each Redis     *)
(* command is a step of its own: CreateFile is CheckFile and then          *)
(* os.Create, RegisterArticle is HasNewsgroup, RegisterNewsgroup,          *)
(* HasArticle and then the commands of a redis.v3 Pipeline(), which the    *)
(* server runs one by one, the commands of other clients in between.       *)
(***************************************************************************)
ConcWires(m) ==
    UNION {{PlainWire(m, g, r, FALSE, 1),
            MultipartWire(m, g, r, FALSE, 1, Picture(1, "png"))}
           : g \in Groups, r \in Refs(m)}

InitConc == InitWith(Pools(ConcWires))

Step(t, pc) == [task EXCEPT ![t].pc = pc]

TaskStart(t) ==
    \E m \in MsgIds :
        /\ task[t].pc = "idle"
        /\ task' = [task EXCEPT ![t].pc = "CheckFile", ![t].msgid = m]
        /\ last' = Last("TaskStart", t, "")
        /\ UNCHANGED <<pool, banned, partial, redis, storeFiles, attachFiles, thumbFiles, clock>>

\* CreateFile, the test: CheckFile(fname)
TaskCheckFile(t) ==
    /\ task[t].pc = "CheckFile"
    /\ task' = IF CreateFile(storeFiles, task[t].msgid)
               THEN Step(t, "Create")
               ELSE [task EXCEPT ![t].pc = "done", ![t].err = "duplicate"]
    /\ last' = Last("TaskCheckFile", t, "")
    /\ UNCHANGED <<pool, banned, partial, redis, storeFiles, attachFiles, thumbFiles, clock>>

\* CreateFile, the act: os.Create(fname) creates the file or truncates it
TaskCreate(t) ==
    /\ task[t].pc = "Create"
    /\ storeFiles' = Put(storeFiles, task[t].msgid, <<>>)
    /\ task' = [task EXCEPT ![t].pc = "Body", ![t].sink = TRUE]
    /\ last' = Last("TaskCreate", t, "")
    /\ UNCHANGED <<pool, banned, partial, redis, attachFiles, thumbFiles, clock>>

\* the headers and the body go to the sink, the attachments to their store
TaskBody(t) ==
    LET m == task[t].msgid
        w == pool[m]
        r == read_message_body(w.body, w.hdr, TRUE, 0)
    IN /\ task[t].pc = "Body"
       /\ storeFiles' = CloseSink(storeFiles, m, w, r)
       /\ attachFiles' = saveAttachment(attachFiles, r.saved)
       /\ thumbFiles' = thumbnailAttachment(thumbFiles, r.saved, TRUE)
       /\ task' = IF r.err = "" THEN Step(t, "HasNewsgroup")
                  ELSE [task EXCEPT ![t].pc = "done", ![t].err = r.err]
       /\ last' = Last("TaskBody", t, "")
       /\ UNCHANGED <<pool, banned, partial, redis, clock>>

TaskHasNewsgroup(t) ==
    /\ task[t].pc = "HasNewsgroup"
    /\ task' = IF HasNewsgroup(redis, Parsed(task[t].msgid).group)
               THEN Step(t, "HasArticle")
               ELSE Step(t, "RegisterNewsgroup")
    /\ last' = Last("TaskHasNewsgroup", t, "")
    /\ UNCHANGED <<pool, banned, partial, redis, storeFiles, attachFiles, thumbFiles, clock>>

TaskRegisterNewsgroup(t) ==
    /\ task[t].pc = "RegisterNewsgroup"
    /\ redis' = RegisterNewsgroup(redis, Parsed(task[t].msgid).group, clock)
    /\ task' = Step(t, "HasArticle")
    /\ last' = Last("TaskRegisterNewsgroup", t, "")
    /\ UNCHANGED <<pool, banned, partial, storeFiles, attachFiles, thumbFiles, clock>>

\* the early return of RegisterArticle, or the pipeline is filled
TaskHasArticle(t) ==
    /\ task[t].pc = "HasArticle"
    /\ task' = IF HasArticle(redis, task[t].msgid)
               THEN Step(t, "done")
               ELSE [task EXCEPT ![t].pc = "Exec",
                                 ![t].cmds = PipeCmds(Parsed(task[t].msgid), clock)]
    /\ last' = Last("TaskHasArticle", t, "")
    /\ UNCHANGED <<pool, banned, partial, redis, storeFiles, attachFiles, thumbFiles, clock>>

\* pipe.Exec(): the server runs the next command of the pipeline
TaskExec(t) ==
    /\ task[t].pc = "Exec"
    /\ redis' = ApplyCmd(redis, Head(task[t].cmds))
    /\ task' = [task EXCEPT ![t].cmds = Tail(@),
                            ![t].pc = IF Tail(task[t].cmds) = <<>> THEN "done" ELSE @]
    /\ last' = Last("TaskExec", t, "")
    /\ UNCHANGED <<pool, banned, partial, storeFiles, attachFiles, thumbFiles, clock>>

\* pipe.Exec() returns an error (the connection is lost, the server refuses a
\* command): the commands not yet run are dropped, the error is logged and
\* RegisterArticle returns as it does after a success; RegisterPost returns nil
TaskExecFail(t) ==
    /\ task[t].pc = "Exec"
    /\ task' = Step(t, "done")
    /\ last' = Last("TaskExecFail", t, "")
    /\ UNCHANGED <<pool, banned, partial, redis, storeFiles, attachFiles, thumbFiles, clock>>

Tasks == 1..MaxTasks

NextConc ==
    \/ \E t \in Tasks : TaskStart(t)
    \/ \E t \in Tasks : TaskCheckFile(t)
    \/ \E t \in Tasks : TaskCreate(t)
    \/ \E t \in Tasks : TaskBody(t)
    \/ \E t \in Tasks : TaskHasNewsgroup(t)
    \/ \E t \in Tasks : TaskRegisterNewsgroup(t)
    \/ \E t \in Tasks : TaskHasArticle(t)
    \/ \E t \in Tasks : TaskExec(t)
    \/ \E t \in Tasks : TaskExecFail(t)

SpecConc == InitConc /\ [][NextConc]_vars

\* the public keys moderators are known by
Pubkeys == {"alice", "mallory"}

DoMarkModPubkeyCanModGroup ==
    \E pubkey \in Pubkeys, group \in Groups :
        /\ redis' = MarkModPubkeyCanModGroup(redis, pubkey, group)
        /\ last' = Last("MarkModPubkeyCanModGroup", group, pubkey)
        /\ UNCHANGED <<pool, banned, partial, storeFiles, attachFiles, thumbFiles, clock, task>>

\* groups are filled, given moderators and nuked
NextNuke ==
    \/ DoRegisterArticle
    \/ DoMarkModPubkeyCanModGroup
    \/ DoNukeNewsgroup

SpecNuke == Init /\ [][NextNuke]_vars

\* the addresses of a subnet, and whether two subnets share an address
Inside(ipnet) == IPNet2MinMax(ipnet).min..IPNet2MinMax(ipnet).max

DoBanAddr ==
    \E addr \in CallAddrs :
        /\ redis' = BanAddr(redis, addr, clock)
        /\ banned' = IF addr.cidr THEN banned \cup {IsSubnet(addr)} ELSE banned
        /\ last' = Last("BanAddr", addr, "")
        /\ UNCHANGED <<pool, partial, storeFiles, attachFiles, thumbFiles, clock, task>>

DoUnbanAddr ==
    \E addr \in CallAddrs :
        /\ redis' = UnbanAddr(redis, addr)
        /\ banned' = {s \in banned : Inside(s) \cap Inside(IsSubnet(addr)) = {}}
        /\ last' = Last("UnbanAddr", addr, "")
        /\ UNCHANGED <<pool, partial, storeFiles, attachFiles, thumbFiles, clock, task>>

InitBan ==
    InitWith({[m \in MsgIds |-> PlainWire(m, "overchan.test", NoRef, FALSE, 1)]})

NextBan ==
    \/ DoBanAddr
    \/ DoUnbanAddr

SpecBan == InitBan /\ [][NextBan]_vars

\* a call of the File Store: the path it hands to the file system is kept
StoreCall(op, messageID) == [Last(op, messageID, "") EXCEPT !.res = GetFilename(messageID)]

\* articleStore.CreateFile called on its own: os.Create makes an empty file
DoCreateFile ==
    \E messageID \in MsgIds \cup BadIds :
        /\ storeFiles' = IF CreateFile(storeFiles, messageID)
                         THEN Put(storeFiles, GetFilename(messageID).name, <<>>)
                         ELSE storeFiles
        /\ last' = StoreCall("CreateFile", messageID)
        /\ UNCHANGED <<pool, banned, partial, redis, attachFiles, thumbFiles, clock, task>>

\* HasArticle, OpenMessage and GetMessage read and leave the files as they are
DoHasArticle ==
    \E messageID \in MsgIds \cup BadIds :
        /\ last' = [StoreCall("HasArticle", messageID) EXCEPT
                      !.nread = IF CheckFile(storeFiles, GetFilename(messageID)) THEN 1 ELSE 0]
        /\ UNCHANGED <<pool, banned, partial, redis, storeFiles, attachFiles, thumbFiles, clock, task>>

DoOpenMessage ==
    \E messageID \in MsgIds \cup BadIds :
        /\ last' = [StoreCall("OpenMessage", messageID) EXCEPT
                      !.nread = IF CheckFile(storeFiles, GetFilename(messageID))
                                THEN Len(storeFiles[messageID]) ELSE 0]
        /\ UNCHANGED <<pool, banned, partial, redis, storeFiles, attachFiles, thumbFiles, clock, task>>

DoGetMessage ==
    \E messageID \in MsgIds \cup BadIds :
        /\ last' = [StoreCall("GetMessage", messageID) EXCEPT
                      !.nread = IF CheckFile(storeFiles, GetFilename(messageID))
                                THEN Len(storeFiles[messageID]) ELSE 0]
        /\ UNCHANGED <<pool, banned, partial, redis, storeFiles, attachFiles, thumbFiles, clock, task>>

\* the File Store under ingestion and direct calls
NextStore ==
    \/ DoIngest
    \/ DoCreateFile
    \/ DoHasArticle
    \/ DoOpenMessage
    \/ DoGetMessage

SpecStore == InitConc /\ [][NextStore]_vars

\* register_article and delete_article only, in any order
NextArticles ==
    \/ Tick
    \/ DoRegisterArticle
    \/ DoDeleteArticle

SpecArticles == Init /\ [][NextArticles]_vars

\* ------------------------------------------------- what a reader observes
Registered == DOMAIN redis.ARTICLE

GroupOf(m) == redis.ARTICLE[m].message_newsgroup

RootOf(m) == redis.ARTICLE[m].message_ref_id

Members(z) == DOMAIN z

GroupArticles(g) == Members(Get(redis.GROUP_ARTICLE_POSTTIME_WKR, g, EmptyZ))

GroupThreadsPosted(g) == Members(Get(redis.GROUP_THREAD_POSTTIME_WKR, g, EmptyZ))

GroupThreadsBumped(g) == Members(Get(redis.GROUP_THREAD_BUMPTIME_WKR, g, EmptyZ))

ThreadPosts(root) == Members(Get(redis.THREAD_POST_WKR, root, EmptyZ))

\* ----------------------------------------------------------------- C1
\* C1: after any sequence of register_article and delete_article calls every
\* secondary ordering holds exactly the message-ids of the registered articles
\* of its scope: the articles of the group, the OPs of the group (twice), the
\* replies of the root, the non-control articles, the non-control OPs
C1_OrderingsExact ==
    /\ \A g \in Groups :
          /\ GroupArticles(g) = {m \in Registered : GroupOf(m) = g}
          /\ GroupThreadsPosted(g)
                = {m \in Registered : GroupOf(m) = g /\ RootOf(m) = NoRef}
          /\ GroupThreadsBumped(g)
                = {m \in Registered : GroupOf(m) = g /\ RootOf(m) = NoRef}
    /\ \A root \in MsgIds :
          ThreadPosts(root) = {m \in Registered : RootOf(m) = root}
    /\ Members(redis.ARTICLE_WKR) = {m \in Registered : GroupOf(m) # "ctl"}
    /\ Members(redis.THREAD_BUMPTIME_WKR)
          = {m \in Registered : GroupOf(m) # "ctl" /\ RootOf(m) = NoRef}

\* a thread root was deleted by delete_article and is still listed as a
\* thread of its group
C1_StaleRoot ==
    /\ last.op = "DeleteArticle"
    /\ last.arg \notin Registered
    /\ \E g \in Groups : last.arg \in GroupThreadsBumped(g)

\* ----------------------------------------------------------------- C2
\* what one RegisterArticle call writes for message m, all of it in place
Indexed(m) ==
    LET message == Parsed(m)
        g == message.group
    IN /\ g \in Members(redis.GROUP_POSTTIME_WKR)
       /\ m \in DOMAIN redis.ARTICLE_POST
       /\ HashMessageID(m) \in DOMAIN redis.HASH_MESSAGEID
       /\ m \in GroupArticles(g)
       /\ g # "ctl" => m \in Members(redis.ARTICLE_WKR)
       /\ OP(message) => /\ m \in GroupThreadsPosted(g)
                         /\ m \in GroupThreadsBumped(g)
                         /\ g # "ctl" => m \in Members(redis.THREAD_BUMPTIME_WKR)
       /\ ~OP(message) => m \in ThreadPosts(message.ref)
       /\ Get(redis.MESSAGEID_HEADER_KR, m, {}) = HeaderNames(message)
       /\ \A h \in HeaderNames(message) : m \in Get(redis.HEADER_KR, h, {})
       /\ \A i \in DOMAIN message.atts :
             /\ m \in Get(redis.ATTACHMENT_ARTICLE_KR, message.atts[i].hash, {})
             /\ message.atts[i].hash \in Get(redis.ARTICLE_ATTACHMENT_KR, m, {})
             /\ message.atts[i].hash \in DOMAIN redis.ATTACHMENT

\* C2: the index updates of one register_article call appear atomically: in
\* every state a reader can observe, an article record that exists comes with
\* its group in group_posttime and its message-id in every ordering, header
\* index and attachment mapping the call writes
C2_RegisterAtomic == \A m \in Registered : Indexed(m)

\* a pipeline is under way: the article record is there, the rest is not yet
C2_HalfRegistered ==
    \E t \in Tasks :
        /\ task[t].pc = "Exec"
        /\ task[t].msgid \in Registered
        /\ ~Indexed(task[t].msgid)

\* ----------------------------------------------------------------- C3
\* C3: of two tasks ingesting the same message-id at once, exactly one
\* obtains a write sink from the File Store; the other observes duplicate
C3_OneSink ==
    \A t1, t2 \in Tasks :
        (t1 # t2 /\ task[t1].msgid # 0 /\ task[t1].msgid = task[t2].msgid)
            => ~(task[t1].sink /\ task[t2].sink)

\* both tasks passed CheckFile before either called os.Create, and both
\* went on to run the pipeline for the one message-id
C3_TwoWriters ==
    \E t1, t2 \in Tasks :
        /\ t1 # t2
        /\ task[t1].msgid = task[t2].msgid
        /\ task[t1].sink /\ task[t2].sink
        /\ task[t1].pc = "done" /\ task[t2].pc = "done"
        /\ task[t1].err = "" /\ task[t2].err = ""

\* ----------------------------------------------------------------- C4
\* the message-id of the article an ingestion of pool message m registers
InnerOf(m) == Parsed(m).msgid

\* C4: ingesting the same input twice in sequence leaves a single article
\* record and a single file: the first call, if it succeeds, leaves the file
\* and the record, and the second call right after it is reported duplicate
\* and changes no ordering, record or file
C4_SecondIngestDuplicate ==
    [][last'.op = "Ingest" =>
         /\ last'.res = "ok" =>
               /\ last'.arg \in DOMAIN storeFiles'
               /\ InnerOf(last'.arg) \in DOMAIN redis'.ARTICLE
         /\ (last.op = "Ingest" /\ last.res = "ok" /\ last'.arg = last.arg) =>
               /\ last'.res = "duplicate"
               /\ UNCHANGED <<redis, storeFiles, attachFiles, thumbFiles>>]_vars

\* an ingestion was turned away as duplicate: the file and the record of the
\* first one are there
C4_Duplicate ==
    /\ last.op = "Ingest"
    /\ last.res = "duplicate"
    /\ last.arg \in DOMAIN storeFiles
    /\ InnerOf(last.arg) \in Registered

\* ----------------------------------------------------------------- C5
Score(z, m) == IF m \in DOMAIN z THEN z[m] ELSE 0

\* the reply m of the pool is registered anew and its root is a registered
\* thread of the same group
ReplyToThread(m) ==
    LET message == Parsed(m)
    IN /\ ~OP(message)
       /\ ~HasArticle(redis, m)
       /\ message.ref \in Registered
       /\ GroupOf(message.ref) = message.group
       /\ RootOf(message.ref) = NoRef

\* C5: registering a reply to a registered thread of the same group: a sage
\* reply leaves the root's score in group_thread_bumptime[group] and in
\* thread_bumptime_all as it was, a non-sage reply sets it to the reply's
\* posted time; every reply sets the root's score in
\* group_thread_posttime[group] to its posted time and joins thread_posts[root]
C5_SageAndBump ==
    [][(last'.op = "RegisterArticle" /\ ReplyToThread(last'.arg)) =>
         LET message == Parsed(last'.arg)
             g == message.group
             root == message.ref
             bumped == Get(redis.GROUP_THREAD_BUMPTIME_WKR, g, EmptyZ)
             bumped2 == Get(redis'.GROUP_THREAD_BUMPTIME_WKR, g, EmptyZ)
             posted2 == Get(redis'.GROUP_THREAD_POSTTIME_WKR, g, EmptyZ)
         IN /\ root \in DOMAIN bumped
            /\ message.sage =>
                  /\ bumped2 = bumped
                  /\ redis'.THREAD_BUMPTIME_WKR = redis.THREAD_BUMPTIME_WKR
            /\ ~message.sage =>
                  /\ Score(bumped2, root) = message.posted
                  /\ g # "ctl" =>
                        Score(redis'.THREAD_BUMPTIME_WKR, root) = message.posted
            /\ Score(posted2, root) = message.posted
            /\ last'.arg \in DOMAIN Get(redis'.THREAD_POST_WKR, root, EmptyZ)]_vars

\* a sage reply was registered: the thread's last-post score is the reply's
\* posted time, its bump score is not
C5_Saged ==
    /\ last.op = "RegisterArticle"
    /\ last.res = "new"
    /\ LET message == Parsed(last.arg)
           g == message.group
           root == message.ref
       IN /\ message.sage
          /\ root \in Registered
          /\ last.arg \in ThreadPosts(root)
          /\ root \in GroupThreadsBumped(g)
          /\ Score(redis.GROUP_THREAD_POSTTIME_WKR[g], root) = message.posted
          /\ Score(redis.GROUP_THREAD_BUMPTIME_WKR[g], root) # message.posted

\* ----------------------------------------------------------------- C6
\* the blob files of content hash h in the attachment store
Blobs(files, h) == {f \in files : f[1] = h}

Referrers(db, h) == Get(db.ATTACHMENT_ARTICLE_KR, h, {})

\* C6: two articles with the same attachment bytes share one blob file and
\* the attachment-to-articles set has both; deleting one article leaves the
\* blob file and the attachment record; deleting the last one removes both
C6_SharedBlob ==
    [][/\ (last'.op = "Ingest" /\ last'.res = "ok") =>
             \A h \in Get(redis'.ARTICLE_ATTACHMENT_KR, InnerOf(last'.arg), {}) :
                /\ Cardinality(Blobs(attachFiles', h)) = 1
                /\ Referrers(redis', h) = Referrers(redis, h) \cup {InnerOf(last'.arg)}
       /\ last'.op = "DeleteArticle" =>
             \A h \in Get(redis.ARTICLE_ATTACHMENT_KR, last'.arg, {}) :
                IF Referrers(redis, h) \ {last'.arg} # {}
                THEN /\ Blobs(attachFiles', h) = Blobs(attachFiles, h)
                     /\ h \in DOMAIN redis'.ATTACHMENT
                ELSE /\ Blobs(attachFiles', h) = {}
                     /\ h \notin DOMAIN redis'.ATTACHMENT]_vars

\* the last article of an attachment was deleted: the record is gone, the
\* blob file is still in the attachment store
C6_BlobLeft ==
    /\ last.op = "DeleteArticle"
    /\ \E h \in Hashes :
          /\ Referrers(redis, h) = {}
          /\ h \notin DOMAIN redis.ATTACHMENT
          /\ Blobs(attachFiles, h) # {}

\* ----------------------------------------------------------------- C7
Referenced(h) == \E m \in Registered : h \in Get(redis.ARTICLE_ATTACHMENT_KR, m, {})

\* C7: in every state an attachment file is on disk iff its hash is
\* referenced by at least one registered article
C7_BlobIffReferenced == \A h \in Hashes : (Blobs(attachFiles, h) # {}) <=> Referenced(h)

\* nuke_group of one group took the blob an article of another group references
C7_NukedSharedBlob ==
    /\ last.op = "NukeNewsgroup"
    /\ \E h \in Hashes, m \in Registered :
          /\ GroupOf(m) # last.arg
          /\ m \in GroupArticles(GroupOf(m))
          /\ m \in DOMAIN storeFiles
          /\ h \in Get(redis.ARTICLE_ATTACHMENT_KR, m, {})
          /\ Blobs(attachFiles, h) = {}

\* ----------------------------------------------------------------- C8
IsEnvelope(w) == ParseMediaType(w.hdr.ctype).media_type = "message/rfc822"

\* the envelope carries both headers and the signature does not verify under
\* the key over the SHA-512 of the body
BadSignature(w) ==
    /\ IsEnvelope(w)
    /\ ~InvalidHeaders(w.hdr)
    /\ ~ReadFails(w.body)
    /\ ~CryptoVerifyFucky(SHA512(w.body), w.hdr.sig, w.hdr.pk)

\* C8: ingesting a signed envelope whose signature does not verify aborts
\* with the invalid-signature error and leaves no article file, saves no
\* attachment and leaves the index as it was
C8_BadSignatureNoTrace ==
    [][(/\ last'.op = "Ingest"
        /\ BadSignature(pool[last'.arg])
        /\ CreateFile(storeFiles, last'.arg)) =>
         /\ last'.res = "invalid signature"
         /\ last'.arg \notin DOMAIN storeFiles'
         /\ attachFiles' = attachFiles
         /\ redis' = redis]_vars

\* an envelope signed by another key was read whole, hashed and turned away
C8_Rejected ==
    /\ last.op = "Ingest"
    /\ last.res = "invalid signature"
    /\ BadSignature(pool[last.arg])
    /\ pool[last.arg].hdr.sig # Sign(pool[last.arg].hdr.pk, SHA512(pool[last.arg].body))
    /\ last.hashed = Len(pool[last.arg].body)
    /\ last.arg \notin DOMAIN storeFiles

\* ----------------------------------------------------------------- C9
\* the envelope carries both headers and the signature verifies
GoodSignature(w) ==
    /\ IsEnvelope(w)
    /\ ~InvalidHeaders(w.hdr)
    /\ ~ReadFails(w.body)
    /\ CryptoVerifyFucky(SHA512(w.body), w.hdr.sig, w.hdr.pk)

\* C9: ingesting a valid signed envelope registers the inner article's
\* message-id, never the outer one's, and records the key that verified the
\* envelope as the pubkey of the inner message-id
C9_InnerRegisteredAndSigned ==
    [][(/\ last'.op = "Ingest"
        /\ last'.res = "ok"
        /\ GoodSignature(pool[last'.arg])) =>
         LET w == pool[last'.arg]
             inner == Head(w.body).v.msgid
         IN /\ inner \in DOMAIN redis'.ARTICLE
            /\ (last'.arg # inner /\ last'.arg \notin DOMAIN redis.ARTICLE)
                  => last'.arg \notin DOMAIN redis'.ARTICLE
            /\ inner \in DOMAIN redis'.ARTICLE_KEY
            /\ redis'.ARTICLE_KEY[inner] = w.hdr.pk]_vars

\* a valid envelope was ingested and its inner article registered, with no
\* pubkey recorded for it
C9_Unsigned ==
    /\ last.op = "Ingest"
    /\ last.res = "ok"
    /\ GoodSignature(pool[last.arg])
    /\ InnerOf(last.arg) \in Registered
    /\ InnerOf(last.arg) \notin DOMAIN redis.ARTICLE_KEY

\* ---------------------------------------------------------------- C10
\* C10: an envelope without the public key header or without the signature
\* header fails with the invalid-headers error before any body byte is
\* hashed, any attachment saved or any article registered
C10_InvalidHeadersFirst ==
    [][(/\ last'.op = "Ingest"
        /\ IsEnvelope(pool[last'.arg])
        /\ (pool[last'.arg].hdr.pk = "" \/ pool[last'.arg].hdr.sig = NoSig)
        /\ CreateFile(storeFiles, last'.arg)) =>
         /\ last'.res = "invalid headers"
         /\ last'.hashed = 0
         /\ attachFiles' = attachFiles
         /\ redis' = redis]_vars

\* an envelope with a public key and no signature was turned away unread
C10_NoSignature ==
    /\ last.op = "Ingest"
    /\ last.res = "invalid headers"
    /\ pool[last.arg].hdr.pk # ""
    /\ pool[last.arg].hdr.sig = NoSig
    /\ last.hashed = 0

\* ---------------------------------------------------------------- C11
\* the parse or the verification of pool message m ends with an error,
\* however the body reader hands over its last bytes
ParseFails(m) ==
    \A k \in 0..MaxTail :
        k <= Len(pool[m].body) => read_message_body(pool[m].body, pool[m].hdr, FALSE, k).err # ""

\* C11: whenever the parser or the verifier returns an error during
\* ingestion, the sink of the message-id is closed and its file deleted, and
\* the index after the call is the index before it
C11_ErrorLeavesIndex ==
    [][(/\ last'.op = "Ingest"
        /\ CreateFile(storeFiles, last'.arg)
        /\ \/ last'.res \notin {"ok", "duplicate"}
           \/ ParseFails(last'.arg)) =>
         /\ last'.res \in {"mime: bad media type", "multipart: NextPart", "read error",
                           "invalid headers", "invalid signature"}
         /\ last'.arg \notin DOMAIN storeFiles'
         /\ redis' = redis]_vars

\* the body reader failed in the middle of a plain body: no file, nothing registered
C11_ReadError ==
    /\ last.op = "Ingest"
    /\ last.res = "read error"
    /\ last.nread = 1
    /\ ~IsEnvelope(pool[last.arg])
    /\ last.arg \notin DOMAIN storeFiles

\* ---------------------------------------------------------------- C12
\* the pipeline of task t failed: commands were left unsent
ExecFailed(t) == task[t].pc = "done" /\ task[t].cmds # <<>>

\* C12: a failure of the Index write during register_article is a hard
\* failure: the ingestion reports an error to its caller and is rolled back,
\* leaving no partially written index state for that message-id
C12_WriteFailureHard ==
    \A t \in Tasks :
        ExecFailed(t) =>
            /\ task[t].err # ""
            /\ task[t].msgid \in Registered => Indexed(task[t].msgid)

\* the pipeline failed after the article record was written: the ingestion
\* ended without an error and the record stays, half indexed
C12_FailureSwallowed ==
    \E t \in Tasks :
        /\ ExecFailed(t)
        /\ task[t].err = ""
        /\ task[t].msgid \in Registered
        /\ ~Indexed(task[t].msgid)
        /\ \A u \in Tasks : u # t => task[u].pc = "idle"

\* ---------------------------------------------------------------- C13
\* C13: register_article scores the message-id in
\* group_article_posttime[group] with the posted timestamp of the article's
\* headers, whatever the time at which the article is received
C13_ScoredByPosted ==
    [][(last'.op = "RegisterArticle" /\ last'.res = "new") =>
          LET message == Parsed(last'.arg)
          IN Score(Get(redis'.GROUP_ARTICLE_POSTTIME_WKR, message.group, EmptyZ),
                   message.msgid) = message.posted]_vars

\* an article posted at one time and received at another sits in the
\* ordering of its group under the time of reception
C13_ScoredByClock ==
    /\ last.op = "RegisterArticle"
    /\ last.res = "new"
    /\ LET message == Parsed(last.arg)
           score == Score(Get(redis.GROUP_ARTICLE_POSTTIME_WKR, message.group, EmptyZ),
                          message.msgid)
       IN /\ message.msgid \in GroupArticles(message.group)
          /\ score = redis.ARTICLE[message.msgid].time_obtained
          /\ redis.ARTICLE_POST[message.msgid].time_posted = message.posted
          /\ score # message.posted

\* ---------------------------------------------------------------- C14
\* C14: last_and_first_for_group(group) returns first = 1 always and last
\* equal to the number of articles in group_article_posttime[group], which
\* is 0 when the group has no articles
C14_LastIsCardinality ==
    \A g \in Groups :
        LET r == GetLastAndFirstForGroup(redis, g)
        IN /\ r.first = 1
           /\ r.last = Cardinality(GroupArticles(g))

\* a group of one article or more is given a last number one past its count
C14_LastOnePast ==
    \E g \in Groups :
        /\ GroupArticles(g) # {}
        /\ GetLastAndFirstForGroup(redis, g).first = 1
        /\ GetLastAndFirstForGroup(redis, g).last = Cardinality(GroupArticles(g)) + 1

\* ---------------------------------------------------------------- C15
\* C15: msgid_for_nntp_id(group, n) returns the message-id at rank n-1 of
\* group_article_posttime[group]; for every n from the first to the last
\* number last_and_first_for_group reports for a non-empty group, it returns
\* a message-id of that group
C15_NumbersResolve ==
    \A g \in Groups :
        LET z == Get(redis.GROUP_ARTICLE_POSTTIME_WKR, g, EmptyZ)
            r == GetLastAndFirstForGroup(redis, g)
        IN /\ \A n \in 1..Cardinality(DOMAIN z) :
                 /\ GetMessageIDForNNTPID(redis, g, n) \in DOMAIN z
                 /\ ZRank(z, GetMessageIDForNNTPID(redis, g, n)) = n - 1
           /\ GroupArticles(g) # {} =>
                 \A n \in r.first..r.last :
                     GetMessageIDForNNTPID(redis, g, n) \in GroupArticles(g)

\* every rank of the group resolves, the last number reported does not
C15_LastUnresolved ==
    \E g \in Groups :
        LET r == GetLastAndFirstForGroup(redis, g)
        IN /\ Cardinality(GroupArticles(g)) = MaxMsg
           /\ \A n \in r.first..(r.last - 1) :
                 GetMessageIDForNNTPID(redis, g, n) \in GroupArticles(g)
           /\ GetMessageIDForNNTPID(redis, g, r.last) = NoMsgid

\* ---------------------------------------------------------------- C16
\* every ordering of the index message-id m is a member of
OrderingsOf(db, m) ==
    (IF m \in DOMAIN db.ARTICLE_WKR THEN {<<"article_all">>} ELSE {})
    \cup (IF m \in DOMAIN db.THREAD_BUMPTIME_WKR THEN {<<"thread_bumptime_all">>} ELSE {})
    \cup {<<"thread_posts", root>> :
             root \in {r \in DOMAIN db.THREAD_POST_WKR : m \in DOMAIN db.THREAD_POST_WKR[r]}}
    \cup {<<"group_article_posttime", g>> :
             g \in {x \in DOMAIN db.GROUP_ARTICLE_POSTTIME_WKR :
                       m \in DOMAIN db.GROUP_ARTICLE_POSTTIME_WKR[x]}}
    \cup {<<"group_thread_posttime", g>> :
             g \in {x \in DOMAIN db.GROUP_THREAD_POSTTIME_WKR :
                       m \in DOMAIN db.GROUP_THREAD_POSTTIME_WKR[x]}}
    \cup {<<"group_thread_bumptime", g>> :
             g \in {x \in DOMAIN db.GROUP_THREAD_BUMPTIME_WKR :
                       m \in DOMAIN db.GROUP_THREAD_BUMPTIME_WKR[x]}}

\* C16: after nuke_group(group) no article whose newsgroup is that group has
\* an article record or appears in any ordering, replies whose root was never
\* registered included; the per-group orderings are empty, no moderator
\* keeps a permission for the group, the group is absent from group_posttime
C16_NukeLeavesNothing ==
    [][last'.op = "NukeNewsgroup" =>
          LET group == last'.arg
          IN /\ \A m \in MsgIds :
                   Parsed(m).group = group =>
                       /\ m \notin DOMAIN redis'.ARTICLE
                       /\ m \notin DOMAIN redis'.ARTICLE_POST
                       /\ OrderingsOf(redis', m) = {}
             /\ group \notin DOMAIN redis'.GROUP_ARTICLE_POSTTIME_WKR
             /\ group \notin DOMAIN redis'.GROUP_THREAD_POSTTIME_WKR
             /\ group \notin DOMAIN redis'.GROUP_THREAD_BUMPTIME_WKR
             /\ \A pubkey \in Pubkeys : ModKey(pubkey, group) \notin DOMAIN redis'.MOD_KEY
             /\ group \notin DOMAIN redis'.GROUP_MOD_KEY_REVERSE_KR
             /\ group \notin Members(redis'.GROUP_POSTTIME_WKR)]_vars

\* the group was nuked, its moderators and orderings are gone, and a reply of
\* the group whose root was never registered keeps its record and its place
\* in thread_posts of that root
C16_OrphanSurvives ==
    /\ last.op = "NukeNewsgroup"
    /\ last.arg \notin DOMAIN redis.GROUP_ARTICLE_POSTTIME_WKR
    /\ \A pubkey \in Pubkeys : ModKey(pubkey, last.arg) \notin DOMAIN redis.MOD_KEY
    /\ \E m \in Registered :
          /\ GroupOf(m) = last.arg
          /\ RootOf(m) # NoRef
          /\ RootOf(m) \notin Registered
          /\ m \in ThreadPosts(RootOf(m))

\* ---------------------------------------------------------------- C17
\* message-id m has no article record and no entry in the orderings of
\* articles and threads
Gone(db, m) ==
    /\ m \notin DOMAIN db.ARTICLE
    /\ m \notin DOMAIN db.ARTICLE_POST
    /\ \A o \in OrderingsOf(db, m) : o[1] = "thread_posts"

\* C17: delete_thread(root) deletes every reply listed in thread_posts[root],
\* then the root, then drops the thread orderings: afterwards neither the
\* root nor any of its replies has an article record or an entry in
\* group_article_posttime, article_all, group_thread_posttime,
\* group_thread_bumptime or thread_bumptime_all, and thread_posts[root] is
\* empty
C17_ThreadGone ==
    [][last'.op = "DeleteThread" =>
          LET root == last'.arg
          IN /\ \A m \in {root} \cup ThreadPosts(root) : Gone(redis', m)
             /\ root \notin DOMAIN redis'.THREAD_POST_WKR]_vars

\* the root lost its article record to delete_article and kept its place in
\* the thread orderings of its group; delete_thread of it finds no group to
\* remove it from
C17_StaleRootKept ==
    /\ last.op = "DeleteThread"
    /\ last.arg \notin Registered
    /\ last.arg \notin DOMAIN redis.THREAD_POST_WKR
    /\ last.arg \notin Members(redis.THREAD_BUMPTIME_WKR)
    /\ \E g \in Groups :
          /\ last.arg \in GroupThreadsPosted(g)
          /\ last.arg \in GroupThreadsBumped(g)

\* ---------------------------------------------------------------- C18
\* the ordering holds no message-id of an article of the group ctl
NoCtl(z) == \A m \in Members(z) : Parsed(m).group # "ctl"

\* C18: in every reachable state article_all contains no message-id of an
\* article of the control group ctl, thread_bumptime_all contains no root
\* belonging to ctl, and thread_bumptime_all is never modified by registering
\* an article whose newsgroup is ctl
C18_CtlOutOfGlobalOrderings ==
    [][/\ NoCtl(redis'.ARTICLE_WKR)
       /\ NoCtl(redis'.THREAD_BUMPTIME_WKR)
       /\ (last'.op = "RegisterArticle" /\ Parsed(last'.arg).group = "ctl") =>
              redis'.THREAD_BUMPTIME_WKR = redis.THREAD_BUMPTIME_WKR]_vars

\* a reply in ctl to a thread of another group, without sage, was registered:
\* the root stands in thread_bumptime_all under the posted time of the reply
C18_CtlReplyBumps ==
    /\ last.op = "RegisterArticle"
    /\ last.res = "new"
    /\ LET message == Parsed(last.arg)
       IN /\ message.group = "ctl"
          /\ ~OP(message)
          /\ ~message.sage
          /\ message.ref \in Registered
          /\ GroupOf(message.ref) # "ctl"
          /\ message.ref \in Members(redis.THREAD_BUMPTIME_WKR)
          /\ redis.THREAD_BUMPTIME_WKR[message.ref] = message.posted
          /\ message.posted # Parsed(message.ref).posted

\* ---------------------------------------------------------------- C19
\* the first and last address an address or subnet stands for
Endpoints(addr) ==
    IF addr.cidr THEN IPNet2MinMax(IsSubnet(addr)) ELSE [min |-> addr.ip, max |-> addr.ip]

\* some stored range has its endpoint at or after max and its start at or
\* before min
RangeStored(db, min, max) ==
    \E end \in Members(db.IP_RANGE_BAN_KR) :
        /\ Compare(end, ZeroIPString(max)) >= 0
        /\ end \in DOMAIN db.IP_RANGE_BAN
        /\ Compare(db.IP_RANGE_BAN[end].start, ZeroIPString(min)) <= 0

\* the lookup agrees with the stored keys
BannedIffStored ==
    \A addr \in Addrs :
        CheckIPBanned(redis, addr) <=>
            \/ addr \in DOMAIN redis.IP_BAN
            \/ RangeStored(redis, Endpoints(addr).min, Endpoints(addr).max)

\* C19: after any sequence of BanAddr and UnbanAddr calls the ban lookup for
\* an address or subnet with endpoints (min, max) reports banned iff the
\* individual-ip ban key exists or some stored range has endpoint >= max and
\* start <= min; in particular every address inside a subnet that was banned
\* and not unbanned is reported banned
C19_BanLookup ==
    /\ BannedIffStored
    /\ \A s \in banned : \A ip \in Inside(s) : CheckIPBanned(redis, Addr(ip))

\* a subnet was banned, no subnet or address sharing an address with it was
\* unbanned since, and an address inside it is reported not banned
C19_BannedSubnetOpen ==
    /\ last.op = "UnbanAddr"
    /\ BannedIffStored
    /\ \E s \in banned : \E ip \in Inside(s) : ~CheckIPBanned(redis, Addr(ip))

\* ---------------------------------------------------------------- C20
StoreOps == {"CreateFile", "HasArticle", "OpenMessage", "GetMessage"}

LF == "LF"

CR == "CR"

Delims == {<<LF>>, <<CR, LF>>}

\* the most attachments an article in memory carries
MaxAtt == 2

NNTPAttachment(mime, name, data) == [Mime |-> mime, Name |-> name, Data |-> data]

\* the attachment lists of the articles built in memory
AttachmentLists ==
    LET one == {NNTPAttachment(m, "pic.png", <<"B">>) : m \in {"image/png", "text/plain"}}
    IN UNION {[1..n -> one] : n \in 0..MaxAtt}

\* the articles built in memory: unsigned, no extra headers
NNTPMessages ==
    {[MessageID |-> <<"<a@x>">>, Newsgroup |-> <<g>>, Reference |-> r,
      Subject |-> <<"hello">>, Posted |-> t, Message |-> m, Name |-> <<"anon">>,
      Email |-> <<"a@x">>, Path |-> <<"x">>, ContentType |-> <<"text/plain">>,
      Attachments |-> a, ok |-> TRUE] :
        g \in Groups, r \in {<<>>, <<"<r@x>">>}, t \in Times,
        m \in {<<"hi">>, <<"hi", LF, "there">>}, a \in AttachmentLists}

\* position of the first token c in s, 0 if there is none
Index(s, c) ==
    IF \E i \in DOMAIN s : s[i] = c
    THEN CHOOSE i \in DOMAIN s : s[i] = c /\ \A j \in 1..(i - 1) : s[j] # c
    ELSE 0

\* LineWriter.Write: the data, then the delimiter
Line(data, delim) == data \o delim

\* the random boundary WriteTo draws
Boundary == "boundary"

\* date.Format(time.RFC1123Z) of a time in seconds, one token
FormatDate(posted) == <<ToString(posted)>>

\* time.Parse(time.RFC1123Z, value): the seconds, or -1 for an error
ParseDate(value) ==
    IF \E t \in 0..(MaxTime + 1) : value = FormatDate(t)
    THEN CHOOSE t \in 0..(MaxTime + 1) : value = FormatDate(t)
    ELSE -1

\* the part WriteTo creates for the message text
MessagePart(message) ==
    [ctype |-> <<"text/plain", ";", " charset=UTF-8">>, disposition |-> <<>>,
     data |-> message]

\* the part WriteTo creates for an attachment: Content-Disposition is Set to
\* "attachment" and a second value, the filename, is Added
AttachmentPart(att) ==
    [ctype |-> <<att.Mime>>,
     disposition |-> << <<"attachment">>, <<"filename=", att.Name>> >>,
     data |-> att.Data]

WriteTo(self, delim) ==
    LET multi == Len(self.Attachments) > 0
        ContentType == IF multi THEN <<"multipart/mixed; boundary=", Boundary>>
                       ELSE self.ContentType
        head == (IF multi THEN Line(<<"Mime-Version: ", "1.0">>, delim) ELSE <<>>)
                \o Line(<<"Content-Type: ">> \o ContentType, delim)
                \o Line(<<"From: ">> \o self.Name \o <<" <">> \o self.Email \o <<">">>, delim)
                \o Line(<<"Date: ">> \o FormatDate(self.Posted), delim)
                \o Line(<<"Newsgroups: ">> \o self.Newsgroup, delim)
                \o Line(<<"Subject: ">> \o self.Subject, delim)
                \o Line(<<"Message-ID: ">> \o self.MessageID, delim)
                \o (IF Len(self.Reference) > 0
                    THEN Line(<<"References: ">> \o self.Reference, delim) ELSE <<>>)
                \o Line(<<"Path: ">> \o self.Path, delim)
                \o Line(<<>>, delim)
    IN [head |-> head, multipart |-> multi,
        text |-> IF multi THEN Line(<<"SRNDv2 Multipart UGUU">>, delim)
                 ELSE Line(self.Message, delim),
        parts |-> IF multi
                  THEN <<MessagePart(self.Message)>>
                       \o [i \in DOMAIN self.Attachments |->
                              AttachmentPart(self.Attachments[i])]
                  ELSE <<>>]

\* the article Load starts from
EmptyMessage ==
    [MessageID |-> <<>>, Newsgroup |-> <<>>, Reference |-> <<>>, Subject |-> <<>>,
     Posted |-> 0, Message |-> <<>>, Name |-> <<>>, Email |-> <<>>, Path |-> <<>>,
     ContentType |-> <<>>, Attachments |-> <<>>, ok |-> TRUE]

\* one header line of Load: the value is the line without the name and
\* without its last byte.  The split of From into name and email and the
\* extra headers are left out: nothing read here depends on them
LoadHeader(self, line) ==
    LET value == SubSeq(line, 2, Len(line) - 1)
        comma == Index(value, ",")
    IN CASE line[1] = "Newsgroups: " ->
                [self EXCEPT !.Newsgroup = IF comma # 0 THEN SubSeq(value, 1, comma - 1)
                                           ELSE value]
         [] line[1] = "Message-ID: " -> [self EXCEPT !.MessageID = value]
         [] line[1] = "Subject: " -> [self EXCEPT !.Subject = value]
         [] line[1] = "Path: " -> [self EXCEPT !.Path = value]
         [] line[1] = "References: " -> [self EXCEPT !.Reference = value]
         [] line[1] = "From: " -> [self EXCEPT !.Name = value]
         [] line[1] = "Date: " ->
                IF ParseDate(value) # -1 THEN [self EXCEPT !.Posted = ParseDate(value)]
                ELSE self
         [] line[1] = "Content-Type: " -> [self EXCEPT !.ContentType = value]
         [] OTHER -> self

\* the header loop of Load: ReadString('\n') until the line "\n"; reaching
\* the end of the input first is a failure
RECURSIVE LoadHeaders(_, _)
LoadHeaders(bytes, self) ==
    LET nl == Index(bytes, LF)
    IN IF nl = 0 THEN [self |-> [self EXCEPT !.ok = FALSE], rest |-> <<>>]
       ELSE IF SubSeq(bytes, 1, nl) = <<LF>>
       THEN [self |-> self, rest |-> SubSeq(bytes, nl + 1, Len(bytes))]
       ELSE LoadHeaders(SubSeq(bytes, nl + 1, Len(bytes)),
                        LoadHeader(self, SubSeq(bytes, 1, nl)))

\* a header value up to its first semicolon
CutSemi(value) ==
    IF Index(value, ";") > 1 THEN SubSeq(value, 1, Index(value, ";") - 1) ELSE value

\* part.FileName(): the filename parameter of the first Content-Disposition
\* value
FileName(part) ==
    LET v == IF part.disposition = <<>> THEN <<>> ELSE Head(part.disposition)
    IN IF Len(v) >= 4 /\ v[1] \in {"attachment", "form-data"} /\ v[2] = ";"
          /\ v[3] = "filename="
       THEN v[4] ELSE ""

\* the multipart loop of Load: every part becomes an attachment, the text
\* of a text/plain part is added to the message as well
RECURSIVE LoadParts(_, _)
LoadParts(parts, self) ==
    IF parts = <<>> THEN self
    ELSE LET part == Head(parts)
             np == NNTPAttachment(CutSemi(part.ctype)[1], FileName(part), part.data)
         IN LoadParts(Tail(parts),
                      [self EXCEPT
                         !.Message = IF np.Mime = "text/plain" THEN @ \o np.Data ELSE @,
                         !.Attachments = Append(@, np)])

\* Load(file, true) of what WriteTo wrote.  The bytes of a multipart body
\* hold no line that is "\n" alone: the multipart writer ends its lines
\* with \r\n
Load(wire) ==
    LET h == LoadHeaders(wire.head \o (IF wire.multipart THEN <<>> ELSE wire.text),
                         EmptyMessage)
        self == h.self
    IN IF ~self.ok THEN self
       ELSE IF self.ContentType = <<>> THEN [self EXCEPT !.Message = h.rest]
       ELSE IF self.ContentType[1] = "multipart/mixed; boundary="
               /\ Len(self.ContentType) = 2 /\ wire.multipart
       THEN LoadParts(wire.parts, self)
       ELSE IF self.ContentType = <<"text/plain">>
       THEN [self EXCEPT !.Message = h.rest]
       ELSE [self EXCEPT !.ok = FALSE]

DoWriteTo ==
    \E self \in NNTPMessages, delim \in Delims :
        /\ last' = [Last("WriteTo", self, WriteTo(self, delim)) EXCEPT
                      !.nread = Len(delim)]
        /\ UNCHANGED <<pool, banned, partial, redis, storeFiles, attachFiles, thumbFiles, clock, task>>

DoLoad ==
    /\ last.op = "WriteTo"
    /\ last' = [Last("Load", last.arg, Load(last.res)) EXCEPT !.nread = last.nread]
    /\ UNCHANGED <<pool, banned, partial, redis, storeFiles, attachFiles, thumbFiles, clock, task>>

\* the longest Signed region verified
MaxSigned == 3

\* the Signed regions in circulation
SignedRegions == UNION {[1..n -> {CR, LF, "a"}] : n \in 1..MaxSigned}

\* a Signature header and a Key header that are no hexadecimal strings
NotHexSignature == <<"zz">>

NotHexKey == "zz"

\* strings.Replace(s, "\n", "\r\n", -1)
RECURSIVE ReplaceLF(_)
ReplaceLF(s) ==
    IF s = <<>> THEN <<>>
    ELSE (IF Head(s) = LF THEN <<CR, LF>> ELSE <<Head(s)>>) \o ReplaceLF(Tail(s))

\* the article has a signature, a key and a Signed region
IsSigned(self) ==
    Len(self.Signature) > 0 /\ Len(self.Key) > 0 /\ Len(self.Signed) > 0

\* NNTPMessage.Verify: the slice buff[:len-2] panics when fewer than two
\* bytes are there; the signature and the key are decoded after it
Verify(self) ==
    IF IsSigned(self)
    THEN LET buff == ReplaceLF(self.Signed)
         IN IF Len(buff) < 2 THEN [panic |-> TRUE, ok |-> FALSE, hashed |-> <<>>]
            ELSE LET trimmed == SubSeq(buff, 1, Len(buff) - 2)
                 IN IF self.Signature = NotHexSignature \/ self.Key = NotHexKey
                    THEN [panic |-> FALSE, ok |-> FALSE, hashed |-> trimmed]
                    ELSE [panic |-> FALSE,
                          ok |-> CryptoVerifyFucky(SHA512(trimmed), self.Signature,
                                                   self.Key),
                          hashed |-> trimmed]
    ELSE [panic |-> FALSE, ok |-> TRUE, hashed |-> <<>>]

\* the articles verified: a Signed region or none, a key, a key that is no
\* hexadecimal string or none, and the signature alice made of the bytes
\* Verify hashes, one that is no hexadecimal string or none
DoVerify ==
    \E signed \in SignedRegions \cup {<<>>}, pk \in Pubkeys \cup {"", NotHexKey},
       sig \in {"signed", "not hex", "none"} :
        LET unsigned == [Signed |-> signed, Key |-> "alice", Signature |-> <<"sig">>]
            self == [Signed |-> signed, Key |-> pk,
                     Signature |->
                         CASE sig = "signed" ->
                                  Sign("alice", SHA512(Verify(unsigned).hashed))
                           [] sig = "not hex" -> NotHexSignature
                           [] OTHER -> NoSig]
        IN /\ last' = Last("Verify", self, Verify(self))
           /\ UNCHANGED <<pool, banned, partial, redis, storeFiles, attachFiles, thumbFiles,
                          clock, task>>

NextRoundTrip ==
    \/ DoWriteTo
    \/ DoLoad
    \/ DoVerify

SpecRoundTrip == InitBan /\ [][NextRoundTrip]_vars

\* ---------------------------------------------------------------- C21
\* how often (sha512, mime, original filename) x occurs among attachments
Count(attachments, x) ==
    Cardinality({i \in DOMAIN attachments :
                    <<SHA512(attachments[i].Data), attachments[i].Mime,
                      attachments[i].Name>> = x})

SameAttachments(a, b) ==
    \A x \in {<<SHA512(att.Data), att.Mime, att.Name>> : att \in Range(a) \cup Range(b)} :
        Count(a, x) = Count(b, x)

\* C21: for any article A built in memory, with or without attachments and
\* with either line delimiter, serializing A with WriteTo and parsing the
\* output with Load gives an article of the same message-id, newsgroup,
\* reference, subject, posted time and text body, and of the same multiset
\* of attachments by (sha512, mime, original filename)
C21_RoundTrip ==
    last.op = "Load" =>
        /\ last.res.ok
        /\ last.res.MessageID = last.arg.MessageID
        /\ last.res.Newsgroup = last.arg.Newsgroup
        /\ last.res.Reference = last.arg.Reference
        /\ last.res.Subject = last.arg.Subject
        /\ last.res.Posted = last.arg.Posted
        /\ last.res.Message = last.arg.Message
        /\ SameAttachments(last.res.Attachments, last.arg.Attachments)

\* an article of one picture written with \n comes back with its headers as
\* they were, and with two attachments: the message text is one of them,
\* and neither has a filename
C21_TextPartAttached ==
    /\ last.op = "Load"
    /\ last.nread = 1
    /\ last.res.ok
    /\ last.res.MessageID = last.arg.MessageID
    /\ last.res.Posted = last.arg.Posted
    /\ Len(last.arg.Attachments) = 1
    /\ last.arg.Attachments[1].Mime = "image/png"
    /\ Len(last.res.Attachments) = 2
    /\ last.res.Attachments[1].Mime = "text/plain"
    /\ last.res.Attachments[2].Name = ""

\* ---------------------------------------------------------------- C22
\* every \n that no \r precedes replaced by \r\n
RECURSIVE ReplaceLoneLF(_, _)
ReplaceLoneLF(s, prev) ==
    IF s = <<>> THEN <<>>
    ELSE (IF Head(s) = LF /\ prev # CR THEN <<CR, LF>> ELSE <<Head(s)>>)
         \o ReplaceLoneLF(Tail(s), Head(s))

Canonical(signed) ==
    LET msg == ReplaceLoneLF(signed, "")
    IN SubSeq(msg, 1, Len(msg) - 2)

\* C22: for header-based signatures the bytes Verify hashes are the Signed
\* region with each lone \n (one no \r precedes) replaced by \r\n and the
\* final two bytes dropped; a \r\n already in the Signed region is left
\* unchanged
C22_LoneNewlines ==
    (last.op = "Verify" /\ IsSigned(last.arg)) =>
        /\ ~last.res.panic
        /\ last.res.hashed = Canonical(last.arg.Signed)

\* a Signed region that begins with \r\n is hashed as \r\r: the \n of the
\* pair got a second \r
C22_PairRewritten ==
    /\ last.op = "Verify"
    /\ last.arg.Signed = <<CR, LF, "a">>
    /\ last.res.hashed = <<CR, CR>>
    /\ Canonical(last.arg.Signed) = <<CR>>

\* ---------------------------------------------------------------- C23
\* C23: for a signed envelope the hash handed to the verifier is the SHA-512
\* of exactly the inner body bytes as the body reader delivers them, however
\* the reader chunks them (the last bytes may come together with the end of
\* the stream), and the inner article is parsed from those same bytes: of
\* the bytes read, all are hashed
C23_HashOfDelivered ==
    [][(/\ last'.op = "Ingest"
        /\ IsEnvelope(pool[last'.arg])
        /\ ~InvalidHeaders(pool[last'.arg].hdr)
        /\ ~ReadFails(pool[last'.arg].body)
        /\ CreateFile(storeFiles, last'.arg)) =>
         /\ last'.nread = Len(pool[last'.arg].body)
         /\ last'.hashed = last'.nread]_vars

\* an envelope whose signature is alice's of the whole inner body was turned
\* away: its last byte came with the end of the stream and was not hashed
C23_TailUnhashed ==
    /\ last.op = "Ingest"
    /\ GoodSignature(pool[last.arg])
    /\ last.res = "invalid signature"
    /\ last.nread = Len(pool[last.arg].body)
    /\ last.hashed = last.nread - 1

BlobLen == 2

\* the attachments the parse of the task's message hands to saveAttachment
Saved(t) == read_message_body(pool[task[t].msgid].body, pool[task[t].msgid].hdr, TRUE, 0).saved

\* upload: the storage filename of the task's attachment
Upload(t) == Filepath(Head(Saved(t)))

InitSave ==
    InitWith({p \in Pools(ConcWires) :
                 /\ \A m \in MsgIds : p[m].hdr.group = "overchan.test" /\ p[m].hdr.ref = NoRef
                 /\ p[1].hdr.ctype # "text/plain"})

SaveStart(t) ==
    \E m \in MsgIds :
        /\ task[t].pc = "idle"
        /\ task' = [task EXCEPT
                      ![t].msgid = m,
                      ![t].pc = IF read_message_body(pool[m].body, pool[m].hdr, TRUE, 0).saved = <<>>
                                THEN "RegisterPost" ELSE "saveAttachment"]
        /\ last' = Last("SaveStart", t, "")
        /\ UNCHANGED <<pool, banned, partial, redis, storeFiles, attachFiles, thumbFiles, clock>>

\* if !CheckFile(upload)
SaveCheckFile(t) ==
    /\ task[t].pc = "saveAttachment"
    /\ task' = Step(t, IF Upload(t) \in attachFiles THEN "thumbnailAttachment" ELSE "os.Create")
    /\ last' = Last("SaveCheckFile", t, "")
    /\ UNCHANGED <<pool, banned, partial, redis, storeFiles, attachFiles, thumbFiles, clock>>

\* os.Create(upload): the file is created, or truncated if it is there
SaveCreate(t) ==
    /\ task[t].pc = "os.Create"
    /\ attachFiles' = attachFiles \cup {Upload(t)}
    /\ partial' = Put(partial, Upload(t), {})
    /\ task' = [task EXCEPT ![t].pc = "WriteTo", ![t].off = 0]
    /\ last' = Last("SaveCreate", t, "")
    /\ UNCHANGED <<pool, banned, redis, storeFiles, thumbFiles, clock>>

\* os.Create(upload) fails: f is nil, the error is logged
SaveCreateFail(t) ==
    /\ task[t].pc = "os.Create"
    /\ task' = [task EXCEPT ![t].pc = "thumbnailAttachment", ![t].err = "os.Create"]
    /\ last' = Last("SaveCreateFail", t, "")
    /\ UNCHANGED <<pool, banned, partial, redis, storeFiles, attachFiles, thumbFiles, clock>>

\* att.WriteTo(f): the next byte of the blob goes to the file at the task's
\* offset; after the last one f is closed
SaveWrite(t) ==
    LET pos == task[t].off + 1
        got == Get(partial, Upload(t), 1..BlobLen) \cup {pos}
    IN /\ task[t].pc = "WriteTo"
       /\ partial' = IF got = 1..BlobLen THEN Del(partial, Upload(t))
                     ELSE Put(partial, Upload(t), got)
       /\ task' = [task EXCEPT ![t].off = pos,
                               ![t].pc = IF pos = BlobLen THEN "thumbnailAttachment" ELSE @]
       /\ last' = Last("SaveWrite", t, "")
       /\ UNCHANGED <<pool, banned, redis, storeFiles, attachFiles, thumbFiles, clock>>

\* att.WriteTo(f) fails (the disk is full): f is closed, the error is logged,
\* the file stays as it is
SaveWriteFail(t) ==
    /\ task[t].pc = "WriteTo"
    /\ task' = [task EXCEPT ![t].pc = "thumbnailAttachment", ![t].err = "WriteTo"]
    /\ last' = Last("SaveWriteFail", t, "")
    /\ UNCHANGED <<pool, banned, partial, redis, storeFiles, attachFiles, thumbFiles, clock>>

\* thumbnailAttachment: if !CheckFile(thumb), GenerateThumbnail starts the tool
ThumbCheckFile(t) ==
    /\ task[t].pc = "thumbnailAttachment"
    /\ task' = Step(t, IF Upload(t) \in thumbFiles THEN "RegisterPost" ELSE "GenerateThumbnail")
    /\ last' = Last("ThumbCheckFile", t, "")
    /\ UNCHANGED <<pool, banned, partial, redis, storeFiles, attachFiles, thumbFiles, clock>>

\* the tool exits and cmd.CombinedOutput() returns: the thumbnail is there
\* if the tool had a file to read and succeeded
ToolExit(t) ==
    \E toolOk \in BOOLEAN :
        /\ task[t].pc = "GenerateThumbnail"
        /\ toolOk => Upload(t) \in attachFiles
        /\ thumbFiles' = thumbnailAttachment(thumbFiles, Saved(t), toolOk)
        /\ task' = Step(t, "RegisterPost")
        /\ last' = Last("ToolExit", t, toolOk)
        /\ UNCHANGED <<pool, banned, partial, redis, storeFiles, attachFiles, clock>>

\* RegisterPost(nntp), the parse having returned without an error
SaveRegisterPost(t) ==
    /\ task[t].pc = "RegisterPost"
    /\ redis' = Then(Parsed(task[t].msgid),
                     LAMBDA message : RegisterArticle(redis, message, clock))
    /\ task' = Step(t, "done")
    /\ last' = Last("RegisterPost", t, "")
    /\ UNCHANGED <<pool, banned, partial, storeFiles, attachFiles, thumbFiles, clock>>

\* the steps of task t that are the task's own: all but the start, which is
\* the caller's, and the exit of the tool, which is the tool's
Proceed(t) ==
    \/ SaveCheckFile(t)
    \/ SaveCreate(t)
    \/ SaveCreateFail(t)
    \/ SaveWrite(t)
    \/ SaveWriteFail(t)
    \/ ThumbCheckFile(t)
    \/ SaveRegisterPost(t)

NextSave ==
    \/ \E t \in Tasks : SaveStart(t)
    \/ \E t \in Tasks : Proceed(t)
    \/ \E t \in Tasks : ToolExit(t)

SpecSave == InitSave /\ [][NextSave]_vars

\* a task that has begun goes on with its own steps; nothing makes the tool exit
SpecSaveLive == SpecSave /\ \A t \in Tasks : WF_vars(Proceed(t))

\* ---------------------------------------------------------------- C25
\* C25: ingestion never waits for thumbnail generation: the parse of an
\* article with attachments and its registration in the index complete
\* whether or not the thumbnail job of its attachments has finished (the job
\* runs by itself after register_article): an ingestion begun is an
\* ingestion done, whatever the tool does
C25_NeverWaits ==
    \A t \in Tasks : (task[t].pc # "idle") ~> (task[t].pc = "done")

\* the tool is running and the task waits for it, the attachment saved and
\* the article not registered
C25_WaitsForTool ==
    \E t \in Tasks :
        /\ task[t].pc = "GenerateThumbnail"
        /\ Upload(t) \in attachFiles
        /\ Upload(t) \notin DOMAIN partial
        /\ task[t].msgid \notin Registered

\* ---------------------------------------------------------------- C26
\* task t is through its saveAttachment
SaveReturned(t) ==
    /\ task[t].pc \in {"thumbnailAttachment", "GenerateThumbnail", "RegisterPost", "done"}
    /\ Saved(t) # <<>>

\* task t is inside its saveAttachment
Saving(t) == task[t].pc \in {"saveAttachment", "os.Create", "WriteTo"}

\* C26: saving an attachment is idempotent and safe under concurrency:
\* however two saves of the same bytes interleave, and whatever an earlier
\* save of those bytes that failed part-way left behind, once the saves are
\* over the file <hash>.<ext> is there, once, and holds the whole blob
C26_SavedOnceInFull ==
    \A t \in Tasks :
        (/\ SaveReturned(t)
         /\ task[t].err = ""
         /\ \A u \in Tasks : ~Saving(u)) =>
            /\ Upload(t) \in attachFiles
            /\ Upload(t) \notin DOMAIN partial

\* a save failed in the middle of its writes; a later save of the same
\* bytes began after that, found the file, wrote nothing and returned: the
\* file is still short
C26_PartialKept ==
    \E t, u \in Tasks :
        /\ task[t].pc = "done"
        /\ task[t].err = "WriteTo"
        /\ task[u].pc = "done"
        /\ task[u].err = ""
        /\ Saved(u) # <<>>
        /\ Upload(u) = Upload(t)
        /\ Upload(u) \in DOMAIN partial
        /\ partial[Upload(u)] = {1}

\* ---------------------------------------------------------------- C27
\* C27: register_article is idempotent on the message-id in every reachable
\* state: called for a message-id whose article record exists, it changes
\* no record and no ordering, group_posttime included, also when the group
\* of the article is absent from group_posttime
C27_KnownArticleNoChange ==
    [][(last'.op = "RegisterArticle" /\ HasArticle(redis, last'.arg)) =>
         redis' = redis]_vars

\* an article on record was registered again while its group, nuked, was
\* out of group_posttime: the group is back, with no article in its ordering
C27_GroupBack ==
    /\ last.op = "RegisterArticle"
    /\ last.res = "known"
    /\ LET g == redis.ARTICLE[last.arg].message_newsgroup
       IN /\ g \in DOMAIN redis.GROUP_POSTTIME_WKR
          /\ redis.GROUP_POSTTIME_WKR[g] > redis.ARTICLE[last.arg].time_obtained
          /\ GroupArticles(g) = {}

\* ---------------------------------------------------------------- C28
IsMultipart(w) == ~ParseMediaType(w.hdr.ctype).err /\ ParseMediaType(w.hdr.ctype).boundary

\* the parts of a body that are to become attachments: not text/plain, and
\* of a well-formed Content-Type
ToAttach(body) ==
    SelectSeq(body, LAMBDA p : /\ p.t = "part"
                               /\ p.v.ptype \in {"image/png", "message/rfc822"})

AttachmentsOf(body) ==
    [i \in DOMAIN ToAttach(body) |->
        [hash |-> ToAttach(body)[i].v.hash, ext |-> ToAttach(body)[i].v.ext,
         name |-> ToAttach(body)[i].v.name]]

IsPlain(w) ==
    /\ ~ParseMediaType(w.hdr.ctype).err
    /\ ~ParseMediaType(w.hdr.ctype).boundary
    /\ ParseMediaType(w.hdr.ctype).media_type # "message/rfc822"

\* C29: for a body that is neither multipart nor message/rfc822 the parser
\* reads the body to its end and the text body of the article is the whole
\* sequence of bytes the reader delivers, however the reader chunks it (the
\* last bytes may come together with the end of the stream); there is no
\* attachment
C29_PlainBodyWhole ==
    [][(/\ last'.op = "Ingest"
        /\ IsPlain(pool[last'.arg])
        /\ ~ReadFails(pool[last'.arg].body)
        /\ CreateFile(storeFiles, last'.arg)) =>
         \A k \in 0..MaxTail :
             LET w == pool[last'.arg]
                 r == read_message_body(w.body, w.hdr, TRUE, k)
             IN k <= Len(w.body) =>
                   /\ r.err = ""
                   /\ r.nread = Len(w.body)
                   /\ r.message = w.body
                   /\ r.nntp.atts = <<>>
                   /\ r.saved = <<>>]_vars

\* a plain article of one byte was ingested; had the reader handed that
\* byte over together with the end of the stream, the article is registered
\* all the same and its text body is empty
C29_TailLost ==
    /\ last.op = "Ingest"
    /\ last.res = "ok"
    /\ IsPlain(pool[last.arg])
    /\ last.nread = 1
    /\ pool[last.arg].body = <<Byte(1)>>
    /\ read_message_body(pool[last.arg].body, pool[last.arg].hdr, TRUE, 1).err = ""
    /\ read_message_body(pool[last.arg].body, pool[last.arg].hdr, TRUE, 1).message = <<>>

\* ------------------------------------------------------- board pages
\* the most threads a group is filled with
MaxThreads == 11

GetPagesPerBoard(group) == 10

\* the rank counted from the lowest score
ZRevRankForward(z, m) == ZRank(z, m)

\* ZREVRANK key member: the rank counted from the highest score
ZRevRank(z, m) == Cardinality(DOMAIN z) - 1 - ZRank(z, m)

\* HGet of the newsgroup field fails for a message-id without a post record,
\* ZRevRank fails for a member the ordering does not have: the index stays 0
GetPageForRootMessage(db, root_message_id) ==
    IF root_message_id \notin DOMAIN db.ARTICLE_POST
    THEN [group |-> "", page |-> 0, err |-> TRUE]
    ELSE LET group == db.ARTICLE_POST[root_message_id].newsgroup
             z == Get(db.GROUP_THREAD_BUMPTIME_WKR, group, EmptyZ)
         IN IF root_message_id \notin DOMAIN z
            THEN [group |-> group, page |-> 0, err |-> TRUE]
            ELSE [group |-> group,
                  page |-> ZRevRank(z, root_message_id) \div GetPagesPerBoard(group),
                  err |-> FALSE]

GetGroupPageCount(db, newsgroup) ==
    LET count == Cardinality(DOMAIN Get(db.GROUP_THREAD_POSTTIME_WKR, newsgroup, EmptyZ))
    IN IF count > 0 THEN ((count - 1) \div GetPagesPerBoard(newsgroup)) + 1 ELSE 1

\* the threads a board is filled with: the next one is the first message-id
\* not on record
NextThread(db) ==
    CHOOSE n \in 1..(MaxThreads + 1) :
        /\ n \notin DOMAIN db.ARTICLE
        /\ \A i \in 1..(n - 1) : i \in DOMAIN db.ARTICLE

\* a new thread of overchan.test is registered
DoRegisterThread ==
    \E posted \in Times :
        LET n == NextThread(redis)
            hdr == Hdr(n, "overchan.test", NoRef, FALSE, posted, "text/plain", "", NoSig)
        IN /\ n <= MaxThreads
           /\ redis' = RegisterArticle(redis, Article(hdr, <<>>), clock)
           /\ last' = Last("RegisterArticle", n, "new")
           /\ UNCHANGED <<pool, banned, partial, storeFiles, attachFiles, thumbFiles, clock,
                          task>>

DoGetPageForRootMessage ==
    \E root \in 1..MaxThreads :
        /\ last' = [Last("GetPageForRootMessage", root, GetPageForRootMessage(redis, root))
                      EXCEPT !.nread = GetGroupPageCount(redis, "overchan.test")]
        /\ UNCHANGED <<pool, banned, partial, redis, storeFiles, attachFiles, thumbFiles,
                       clock, task>>

NextPages ==
    \/ DoRegisterThread
    \/ DoGetPageForRootMessage

SpecPages == InitBan /\ [][NextPages]_vars

\* ---------------------------------------------------------------- C30
\* the number of threads of the ordering bumped later than root: with a
\* higher score or, the score being the same, a greater message-id
BumpedLater(z, root) ==
    Cardinality({x \in DOMAIN z : z[x] > z[root] \/ (z[x] = z[root] /\ x > root)})

\* C30: page_of(root) returns the newsgroup of the root and the page
\* floor(r / 10), r being the reverse rank of the root in
\* group_thread_bumptime[group] (0 for the thread bumped last); the page is
\* always smaller than the page count reported for the group
C30_PageOfRoot ==
    (/\ last.op = "GetPageForRootMessage"
     /\ last.arg \in Registered
     /\ last.arg \in GroupThreadsBumped(GroupOf(last.arg))) =>
        LET g == GroupOf(last.arg)
            r == BumpedLater(redis.GROUP_THREAD_BUMPTIME_WKR[g], last.arg)
        IN /\ ~last.res.err
           /\ last.res.group = g
           /\ \E q \in 0..MaxThreads :
                 /\ 10 * q <= r
                 /\ r < 10 * (q + 1)
                 /\ last.res.page = q
           /\ last.res.page < GetGroupPageCount(redis, g)
           /\ last.nread = GetGroupPageCount(redis, g)

\* eleven threads: the one bumped first is on page 1 of 2
C30_SecondPage ==
    /\ last.op = "GetPageForRootMessage"
    /\ ~last.res.err
    /\ last.res.page = 1
    /\ BumpedLater(redis.GROUP_THREAD_BUMPTIME_WKR["overchan.test"], last.arg) = 10
    /\ GetGroupPageCount(redis, "overchan.test") = 2

\* ---------------------------------------------------------------- C31
\* the thread roots whose score in ordering z1 is lower than it was in z
Lowered(z, z1) == {m \in (DOMAIN z) \cap (DOMAIN z1) : z1[m] < z[m]}

\* C31: no register_article call lowers the score a thread root has in
\* group_thread_bumptime[group], thread_bumptime_all or
\* group_thread_posttime[group]: a reply posted before the thread's current
\* score does not move the thread backwards
C31_ScoresNeverDecrease ==
    [][last'.op = "RegisterArticle" =>
         /\ Lowered(redis.THREAD_BUMPTIME_WKR, redis'.THREAD_BUMPTIME_WKR) = {}
         /\ \A g \in Groups :
               /\ Lowered(Get(redis.GROUP_THREAD_BUMPTIME_WKR, g, EmptyZ),
                          Get(redis'.GROUP_THREAD_BUMPTIME_WKR, g, EmptyZ)) = {}
               /\ Lowered(Get(redis.GROUP_THREAD_POSTTIME_WKR, g, EmptyZ),
                          Get(redis'.GROUP_THREAD_POSTTIME_WKR, g, EmptyZ)) = {}]_vars

\* a non-sage reply posted before its root was registered after it: the
\* thread's three scores are the reply's posted time, below the root's own
C31_MovedBack ==
    /\ last.op = "RegisterArticle"
    /\ last.res = "new"
    /\ LET message == Parsed(last.arg)
           g == message.group
           root == message.ref
       IN /\ ~OP(message)
          /\ ~message.sage
          /\ g # "ctl"
          /\ root \in Registered
          /\ last.arg \in ThreadPosts(root)
          /\ message.posted < redis.ARTICLE_POST[root].time_posted
          /\ Score(Get(redis.GROUP_THREAD_BUMPTIME_WKR, g, EmptyZ), root) = message.posted
          /\ Score(Get(redis.GROUP_THREAD_POSTTIME_WKR, g, EmptyZ), root) = message.posted
          /\ Score(redis.THREAD_BUMPTIME_WKR, root) = message.posted

\* ---------------------------------------------------------------- C32
\* the thread orderings of group g and of root
ThreadOrderings(db, g, root) ==
    [posttime |-> Get(db.GROUP_THREAD_POSTTIME_WKR, g, EmptyZ),
     bumptime |-> Get(db.GROUP_THREAD_BUMPTIME_WKR, g, EmptyZ),
     bumptime_all |-> db.THREAD_BUMPTIME_WKR,
     posts |-> Get(db.THREAD_POST_WKR, root, EmptyZ)]

\* message first, then message second, registered with no call in between
RegisterBoth(db, first, second, now) ==
    Then(RegisterArticle(db, first, now), LAMBDA d : RegisterArticle(d, second, now))

\* pool messages R and P are a root and a reply to it in the same group, and
\* the index holds nothing of either
FreshThread(R, P) ==
    /\ OP(Parsed(R))
    /\ Parsed(P).ref = R
    /\ Parsed(P).group = Parsed(R).group
    /\ R \notin Registered /\ P \notin Registered
    /\ R \notin DOMAIN redis.THREAD_BUMPTIME_WKR
    /\ R \notin GroupThreadsPosted(Parsed(R).group)
    /\ R \notin GroupThreadsBumped(Parsed(R).group)
    /\ ThreadPosts(R) = {}

\* C32: for a root R and a reply P to it in the same group, registering R
\* then P and registering P then R give the same members and scores in
\* group_thread_posttime, group_thread_bumptime, thread_bumptime_all and
\* thread_posts[R]
C32_ArrivalOrder ==
    \A R, P \in MsgIds :
        FreshThread(R, P) =>
            ThreadOrderings(RegisterBoth(redis, Parsed(R), Parsed(P), clock),
                            Parsed(R).group, R)
            = ThreadOrderings(RegisterBoth(redis, Parsed(P), Parsed(R), clock),
                              Parsed(R).group, R)

\* the reply arrived first and the root after it: the thread's last-post
\* score is the root's posted time, where the other order gives the reply's
C32_ReplyFirst ==
    /\ last.op = "RegisterArticle"
    /\ last.res = "new"
    /\ \E P \in Registered :
          LET R == last.arg
              g == GroupOf(R)
          IN /\ RootOf(R) = NoRef
             /\ RootOf(P) = R
             /\ GroupOf(P) = g
             /\ P \in ThreadPosts(R)
             /\ redis.ARTICLE_POST[P].time_posted # redis.ARTICLE_POST[R].time_posted
             /\ Score(Get(redis.GROUP_THREAD_POSTTIME_WKR, g, EmptyZ), R)
                   = redis.ARTICLE_POST[R].time_posted
             /\ Score(ThreadOrderings(
                          RegisterBoth(EmptyDB, Parsed(R), Parsed(P), clock),
                          g, R).posttime, R)
                   = redis.ARTICLE_POST[P].time_posted

\* ---------------------------------------------------------------- C33
\* the members of thread_bumptime_all that are articles of group g
RootsInBumptimeAll(g) ==
    {m \in Members(redis.THREAD_BUMPTIME_WKR) : Parsed(m).group = g}

\* C33: after complete register_article, delete_article, delete_thread and
\* nuke_group calls group_thread_posttime[g] and group_thread_bumptime[g] have
\* the same members for every group g, and for a group other than ctl these
\* are the roots of g that thread_bumptime_all holds
C33_ThreadOrderingsAgree ==
    \A g \in Groups :
        /\ GroupThreadsPosted(g) = GroupThreadsBumped(g)
        /\ g # "ctl" => GroupThreadsBumped(g) = RootsInBumptimeAll(g)

\* delete_thread was called for a root whose article record delete_article
\* had removed: the root left thread_bumptime_all and stayed in both
\* orderings of its group
C33_RootLeftGlobalOnly ==
    /\ last.op = "DeleteThread"
    /\ last.arg \notin Registered
    /\ last.arg \notin Members(redis.THREAD_BUMPTIME_WKR)
    /\ \E g \in Groups \ {"ctl"} :
          /\ last.arg \in GroupThreadsBumped(g)
          /\ last.arg \in GroupThreadsPosted(g)

\* the two orderings of a group have the same members in every state
SameGroupMembers == \A g \in Groups : GroupThreadsPosted(g) = GroupThreadsBumped(g)

\* ---------------------------------------------------------------- C34
\* C34: UnbanAddr(S) for a subnet S changes the ban status only inside S: an
\* address outside S that the lookup reported banned before the call is
\* reported banned after it
C34_UnbanOnlyInside ==
    [][(last'.op = "UnbanAddr" /\ last'.arg.cidr) =>
         \A ip \in IPs \ Inside(IsSubnet(last'.arg)) :
             CheckIPBanned(redis, Addr(ip)) => CheckIPBanned(redis', Addr(ip))]_vars

\* UnbanAddr was called for a subnet, and an address outside it, inside a
\* subnet banned and never unbanned, is reported not banned
C34_OutsideOpened ==
    /\ last.op = "UnbanAddr"
    /\ last.arg.cidr
    /\ \E s \in banned :
          \E ip \in Inside(s) \ Inside(IsSubnet(last.arg)) :
              /\ Addr(ip) \notin DOMAIN redis.IP_BAN
              /\ ~CheckIPBanned(redis, Addr(ip))

\* ------------------------------ delete_article beside register_article
(***************************************************************************)
(* DeleteArticle is a series of Redis commands, each a round trip of its   *)
(* own, and RegisterArticle is HasNewsgroup, RegisterNewsgroup, HasArticle *)
(* and the commands of its pipeline: the server runs the commands of the   *)
(* two callers in any order.  The index starts empty or with one article   *)
(* of the pool registered; every article of the pool carries the picture   *)
(* of hash 1.                                                              *)
(***************************************************************************)
PictureWires(m) ==
    {MultipartWire(m, g, r, FALSE, 1, Picture(1, "png")) : g \in Groups, r \in Refs(m)}

InitDelete ==
    /\ pool \in Pools(PictureWires)
    /\ redis \in {EmptyDB} \cup {RegisterArticle(EmptyDB, Parsed(m), 1) : m \in MsgIds}
    /\ storeFiles = <<>>
    /\ attachFiles = {}
    /\ partial = <<>>
    /\ thumbFiles = {}
    /\ clock = 1
    /\ task = [t \in 1..MaxTasks |-> Idle]
    /\ banned = {}
    /\ last = Last("none", 0, "")

\* a caller enters RegisterArticle(message)
RegisterStart(t) ==
    \E m \in MsgIds :
        /\ task[t].pc = "idle"
        /\ task' = [task EXCEPT ![t].pc = "HasNewsgroup", ![t].msgid = m]
        /\ last' = Last("RegisterStart", t, "")
        /\ UNCHANGED <<pool, banned, partial, redis, storeFiles, attachFiles, thumbFiles, clock>>

\* a caller enters DeleteArticle(msgid): GetPostModel, the thread membership,
\* the records and the article orderings
DeleteStart(t) ==
    \E m \in MsgIds :
        /\ task[t].pc = "idle"
        /\ redis' = DeleteArticleRecords(redis, m)
        /\ task' = [task EXCEPT ![t].pc = "Headers", ![t].msgid = m]
        /\ last' = Last("DeleteStart", t, "")
        /\ UNCHANGED <<pool, banned, partial, storeFiles, attachFiles, thumbFiles, clock>>

\* the header index of the article
DeleteHeaders(t) ==
    /\ task[t].pc = "Headers"
    /\ redis' = DeleteArticleHeaders(redis, task[t].msgid)
    /\ task' = Step(t, "SMembers")
    /\ last' = Last("DeleteHeaders", t, "")
    /\ UNCHANGED <<pool, banned, partial, storeFiles, attachFiles, thumbFiles, clock>>

\* atts := SMembers(ARTICLE_ATTACHMENT_KR_PREFIX + msgid)
DeleteSMembers(t) ==
    /\ task[t].pc = "SMembers"
    /\ LET atts == SetToSeq(Get(redis.ARTICLE_ATTACHMENT_KR, task[t].msgid, {}))
       IN task' = [task EXCEPT ![t].cmds = atts,
                               ![t].pc = IF atts = <<>> THEN "Del" ELSE "SRem"]
    /\ last' = Last("DeleteSMembers", t, "")
    /\ UNCHANGED <<pool, banned, partial, redis, storeFiles, attachFiles, thumbFiles, clock>>

\* SRem(ATTACHMENT_ARTICLE_KR_PREFIX + a, msgid)
DeleteSRem(t) ==
    /\ task[t].pc = "SRem"
    /\ redis' = [redis EXCEPT
                    !.ATTACHMENT_ARTICLE_KR = SRem(@, Head(task[t].cmds), task[t].msgid)]
    /\ task' = Step(t, "Exists")
    /\ last' = Last("DeleteSRem", t, "")
    /\ UNCHANGED <<pool, banned, partial, storeFiles, attachFiles, thumbFiles, clock>>

\* the attachment of the loop is dealt with: the next one, or the end of it
NextAttachment(t) ==
    [task EXCEPT ![t].cmds = Tail(@),
                 ![t].pc = IF Tail(task[t].cmds) = <<>> THEN "Del" ELSE "SRem"]

\* exists := Exists(ATTACHMENT_ARTICLE_KR_PREFIX + a)
DeleteExists(t) ==
    /\ task[t].pc = "Exists"
    /\ task' = IF Head(task[t].cmds) \in DOMAIN redis.ATTACHMENT_ARTICLE_KR
               THEN NextAttachment(t)
               ELSE Step(t, "DelAttachment")
    /\ last' = Last("DeleteExists", t, "")
    /\ UNCHANGED <<pool, banned, partial, redis, storeFiles, attachFiles, thumbFiles, clock>>

\* Del(ATTACHMENT_PREFIX + a)
DeleteDelAttachment(t) ==
    /\ task[t].pc = "DelAttachment"
    /\ redis' = [redis EXCEPT !.ATTACHMENT = Del(@, Head(task[t].cmds))]
    /\ task' = NextAttachment(t)
    /\ last' = Last("DeleteDelAttachment", t, "")
    /\ UNCHANGED <<pool, banned, partial, storeFiles, attachFiles, thumbFiles, clock>>

\* Del(ARTICLE_ATTACHMENT_KR_PREFIX + msgid), and DeleteArticle returns
DeleteDel(t) ==
    /\ task[t].pc = "Del"
    /\ redis' = [redis EXCEPT !.ARTICLE_ATTACHMENT_KR = Del(@, task[t].msgid)]
    /\ task' = Step(t, "deleted")
    /\ last' = Last("DeleteDel", t, "")
    /\ UNCHANGED <<pool, banned, partial, storeFiles, attachFiles, thumbFiles, clock>>

NextDelete ==
    \/ \E t \in Tasks : RegisterStart(t)
    \/ \E t \in Tasks : TaskHasNewsgroup(t)
    \/ \E t \in Tasks : TaskRegisterNewsgroup(t)
    \/ \E t \in Tasks : TaskHasArticle(t)
    \/ \E t \in Tasks : TaskExec(t)
    \/ \E t \in Tasks : DeleteStart(t)
    \/ \E t \in Tasks : DeleteHeaders(t)
    \/ \E t \in Tasks : DeleteSMembers(t)
    \/ \E t \in Tasks : DeleteSRem(t)
    \/ \E t \in Tasks : DeleteExists(t)
    \/ \E t \in Tasks : DeleteDelAttachment(t)
    \/ \E t \in Tasks : DeleteDel(t)

SpecDelete == InitDelete /\ [][NextDelete]_vars

\* ---------------------------------------------------------------- C35
\* the attachment hashes article m of the pool carries
HashesOf(m) == {Parsed(m).atts[i].hash : i \in DOMAIN Parsed(m).atts}

\* task tD has run DeleteArticle(A) and task tR RegisterArticle(B) to their
\* ends, A and B being two articles
DeletedBesideRegistered(tD, tR) ==
    /\ task[tD].pc = "deleted"
    /\ task[tR].pc = "done"
    /\ task[tD].msgid # task[tR].msgid

\* C35: delete_article(A) and register_article(B) interleaved in any way, A
\* and B carrying the same attachment hash: once both calls are complete the
\* attachment record of the hash exists with its filepath and the
\* attachment-to-articles set is {B}, so that the registered article B
\* references no hash without its record
C35_RecordSurvivesDelete ==
    \A tD, tR \in Tasks :
        DeletedBesideRegistered(tD, tR) =>
            \A h \in HashesOf(task[tD].msgid) \cap HashesOf(task[tR].msgid) :
                /\ h \in DOMAIN redis.ATTACHMENT
                /\ "filepath" \in DOMAIN redis.ATTACHMENT[h]
                /\ Get(redis.ATTACHMENT_ARTICLE_KR, h, {}) = {task[tR].msgid}

\* both calls are complete: B is registered and listed for the hash, the
\* hash is listed for B, and the attachment record of the hash is gone
C35_RecordLost ==
    \E tD, tR \in Tasks :
        /\ DeletedBesideRegistered(tD, tR)
        /\ task[tR].msgid \in Registered
        /\ \E h \in Get(redis.ARTICLE_ATTACHMENT_KR, task[tR].msgid, {}) :
              /\ task[tR].msgid \in Get(redis.ATTACHMENT_ARTICLE_KR, h, {})
              /\ h \notin DOMAIN redis.ATTACHMENT

\* ---------------------------------------------------------------- C36
\* the NNTP number of article m in ordering z: its rank and one
Number(z, m) == ZRank(z, m) + 1

\* C36: registering a new article in a group changes the NNTP number of no
\* article already registered in the group, and the new article is given the
\* highest number
C36_NumbersStable ==
    [][(last'.op = "RegisterArticle" /\ last'.res = "new") =>
         LET g == Parsed(last'.arg).group
             z == Get(redis.GROUP_ARTICLE_POSTTIME_WKR, g, EmptyZ)
             z1 == Get(redis'.GROUP_ARTICLE_POSTTIME_WKR, g, EmptyZ)
         IN /\ \A m \in DOMAIN z :
                  /\ m \in DOMAIN z1
                  /\ Number(z1, m) = Number(z, m)
                  /\ GetMessageIDForNNTPID(redis', g, Number(z, m)) = m
            /\ last'.arg \in DOMAIN z1
            /\ Number(z1, last'.arg) = Cardinality(DOMAIN z1)]_vars

\* the article registered last came in the same second as an article of the
\* group with a greater message-id: it has the lower number of the two
C36_Renumbered ==
    /\ last.op = "RegisterArticle"
    /\ last.res = "new"
    /\ LET g == GroupOf(last.arg)
           z == Get(redis.GROUP_ARTICLE_POSTTIME_WKR, g, EmptyZ)
       IN \E m \in DOMAIN z :
             /\ m # last.arg
             /\ z[m] = z[last.arg]
             /\ Number(z, last.arg) < Number(z, m)
             /\ GetMessageIDForNNTPID(redis, g, Number(z, last.arg)) = last.arg

\* ---------------------------------------------------- thread replies
\* the most replies the thread is given, and the greatest limit asked for
MaxReplies == 3

MaxLimit == 4

\* the thread the replies go to: the first article registered
Root == NextThread(EmptyDB)

\* the root is registered, and then a reply to it at a time
DoRegisterReply ==
    \E posted \in Times :
        LET n == NextThread(redis)
            hdr == Hdr(n, "overchan.test", IF n = Root THEN NoRef ELSE Root, FALSE,
                       posted, "text/plain", "", NoSig)
        IN /\ n <= MaxReplies + 1
           /\ redis' = RegisterArticle(redis, Article(hdr, <<>>), clock)
           /\ last' = Last("RegisterArticle", n, "new")
           /\ UNCHANGED <<pool, banned, partial, storeFiles, attachFiles, thumbFiles, clock,
                          task>>

DoGetThreadReplies ==
    \E limit \in (-1)..MaxLimit :
        /\ last' = Last("GetThreadReplies", limit, GetThreadReplies(redis, Root, limit))
        /\ UNCHANGED <<pool, banned, partial, redis, storeFiles, attachFiles, thumbFiles,
                       clock, task>>

NextReplies ==
    \/ DoRegisterReply
    \/ DoGetThreadReplies

SpecReplies == InitBan /\ [][NextReplies]_vars

\* ---------------------------------------------------------------- C37
\* the replies of the thread, the earliest posted first
RepliesAscending == ZSeq(Get(redis.THREAD_POST_WKR, Root, EmptyZ))

Min(a, b) == IF a < b THEN a ELSE b

\* C37: GetThreadReplies(root, limit) returns every reply of the thread in
\* ascending posted order when limit <= 0, and the min(limit, reply count)
\* replies posted last when limit >= 1
C37_RepliesByLimit ==
    last.op = "GetThreadReplies" =>
        LET all == RepliesAscending
            n == Len(all)
            z == Get(redis.THREAD_POST_WKR, Root, EmptyZ)
        IN /\ \A i, j \in 1..Len(last.res) : i < j => z[last.res[i]] <= z[last.res[j]]
           /\ last.arg <= 0 => last.res = all
           /\ last.arg >= 1 =>
                 /\ Len(last.res) = Min(last.arg, n)
                 /\ last.res = SubSeq(all, n - Min(last.arg, n) + 1, n)

\* three replies: a limit of 2 returned one of them
C37_OneShort ==
    /\ last.op = "GetThreadReplies"
    /\ last.arg = 2
    /\ Len(RepliesAscending) = 3
    /\ last.res = SubSeq(RepliesAscending, 3, 3)

\* three replies: a limit of 1 returned all three
C37_LimitOneAll ==
    /\ last.op = "GetThreadReplies"
    /\ last.arg = 1
    /\ Len(RepliesAscending) = 3
    /\ last.res = RepliesAscending

\* ---------------------------------------------------------------- C38
\* C38: Verify returns for every message, with no runtime fault: true when
\* the signature, the key or the Signed region is empty, false when the
\* signature or the key is no hexadecimal string, and else, for every Signed
\* region of one byte or more, the verdict of the verifier on the hash of the
\* bytes left by the two-byte trim
C38_VerifyReturns ==
    last.op = "Verify" =>
        LET self == last.arg
        IN /\ ~last.res.panic
           /\ ~IsSigned(self) => last.res.ok
           /\ (IsSigned(self)
               /\ (self.Signature = NotHexSignature \/ self.Key = NotHexKey)) =>
                  ~last.res.ok
           /\ (IsSigned(self) /\ self.Signature # NotHexSignature
               /\ self.Key # NotHexKey) =>
                  /\ last.res.hashed
                        = SubSeq(ReplaceLF(self.Signed), 1, Len(ReplaceLF(self.Signed)) - 2)
                  /\ last.res.ok
                        = CryptoVerifyFucky(SHA512(last.res.hashed), self.Signature,
                                            self.Key)

\* a Signed region of the single byte "a", with a signature and a key: the
\* slice of the trim is out of range and Verify does not return
C38_SingleBytePanics ==
    /\ last.op = "Verify"
    /\ IsSigned(last.arg)
    /\ last.arg.Signed = <<"a">>
    /\ Len(ReplaceLF(last.arg.Signed)) = 1
    /\ last.res.panic

\* ------------------------------------------------ nested envelopes
\* the most envelopes around an article
MaxDepth == 3

\* an envelope is signed by the key it names, by another key, or comes
\* without key and signature
EnvelopeKinds == {"valid", "forged", "unsigned"}

\* the articles found inside: plain, with a picture, of a malformed
\* Content-Type
Innermost ==
    {PlainWire(1, "overchan.test", NoRef, FALSE, 1),
     MultipartWire(1, "overchan.test", NoRef, FALSE, 1, Picture(1, "png")),
     Wire(Hdr(1, "overchan.test", NoRef, FALSE, 1, "garbage", "", NoSig), <<Byte(1)>>)}

\* inner wrapped in one envelope for each kind of kinds, the first outermost
RECURSIVE Nested(_, _)
Nested(kinds, inner) ==
    IF kinds = <<>> THEN inner
    ELSE LET in == Nested(Tail(kinds), inner)
             kind == Head(kinds)
         IN Envelope(Len(kinds) + 1, in,
                     IF kind = "unsigned" THEN "" ELSE "alice",
                     CASE kind = "valid" -> "alice"
                       [] kind = "forged" -> "mallory"
                       [] OTHER -> "",
                     InnerBytes(in))

\* read_message_body of an article inside envelopes, nothing stored
DoReadMessageBody ==
    \E d \in 0..MaxDepth, inner \in Innermost, k \in 0..MaxTail :
        \E kinds \in [1..d -> EnvelopeKinds] :
            LET w == Nested(kinds, inner)
            IN /\ k <= Len(w.body)
               /\ last' = [Last("read_message_body",
                                [wire |-> w, inner |-> inner, kinds |-> kinds, k |-> k],
                                read_message_body(w.body, w.hdr, FALSE, k))
                             EXCEPT !.nread = d]
               /\ UNCHANGED <<pool, banned, partial, redis, storeFiles, attachFiles,
                              thumbFiles, clock, task>>

NextNested == DoReadMessageBody

SpecNested == InitBan /\ [][NextNested]_vars

\* ---------------------------------------------------------------- C39
\* C39: read_message_body returns for every finite body, signed envelopes
\* nested to any depth included: each call made for an inner message has a
\* shorter body than its caller, no more calls are made than there are
\* envelopes, and the call returns an error or the innermost, unsigned
\* article
C39_RecursionEnds ==
    last.op = "read_message_body" =>
        LET r == last.res
            inner == last.arg.inner
        IN /\ \A i \in 1..(Len(r.calls) - 1) : r.calls[i + 1] < r.calls[i]
           /\ Len(r.calls) <= last.nread + 1
           /\ r.err = "" =>
                 /\ Len(r.calls) = last.nread + 1
                 /\ r.nntp.msgid = inner.hdr.msgid
                 /\ r.nntp = Article(inner.hdr, r.nntp.atts)
                 /\ ParseMediaType(inner.hdr.ctype).media_type # "message/rfc822"
           /\ r.err # "" => r.nntp = NoArticle

\* an article with a picture inside three valid envelopes: four calls, each
\* on a shorter body, and the article inside is returned
C39_ThreeDeep ==
    /\ last.op = "read_message_body"
    /\ last.nread = 3
    /\ last.res.err = ""
    /\ Len(last.res.calls) = 4
    /\ last.res.calls[4] < last.res.calls[1]
    /\ last.res.nntp.msgid = 1
    /\ Len(last.res.nntp.atts) = 1
====
